---- MODULE Spec2Model ----
(***************************************************************************)
(* Model of the unauthenticated status path of micropython-tesla-ble:      *)
(*   - VehicleState.update_from_response        (vehicle_state.py)         *)
(*   - MinimalTeslaClient._send_fragmented      (client.py)                *)
(*   - MinimalTeslaClient._receive_message      (client.py)                *)
(*   - MinimalTeslaClient.send_body_controller_state_request, connect,     *)
(*     disconnect                               (client.py)                *)
(*   - _read_varint, _parse_field, _parse_message_fields,                  *)
(*     parse_body_controller_state              (parser.py)                *)
(*   - the frame builders   (client.py, handshake.py, message_signer.py)   *)
(* Several specifications share the variables below; each drives one part  *)
(* of the program and leaves the other parts' variables untouched.         *)
(***************************************************************************)
EXTENDS Integers, Sequences, FiniteSets, TLC

VARIABLES
    \* ---- VehicleState.update_from_response on one accumulator ----
    m_self,          \* the accumulator object (field -> value or None)
    m_prev_self,     \* history: the accumulator before the last call
    m_new_state,     \* argument of the last call
    m_prev_new,      \* history: argument of the call before the last one
    m_changes,       \* return value of the last call
    m_count,         \* number of calls so far
    m_raised,        \* "none" or the exception the last call raised
    \* ---- MinimalTeslaClient: connection state and one exchange ----
    connection,      \* self._connection is not None
    write_char,      \* self._write_char is not None
    read_char,       \* self._read_char is not None
    vehicle_state,   \* self._vehicle_state: <<>> for None, <<s>> for an object
    cpc,             \* position inside send_body_controller_state_request
    cerr,            \* exception raised by the last exchange
    calls,           \* number of exchanges started
    c_new_state,     \* local `new_state` of the last exchange that parsed
    acc_id,          \* history: how many accumulators connect() has created
    h_atCall,        \* history: self._vehicle_state when the exchange started
    h_lastSet,       \* history: per field, last set value merged into this accumulator
    \* ---- MinimalTeslaClient._receive_message ----
    r_connected,     \* is_connected() at entry
    packets,         \* local list `packets`
    first_packet,    \* local flag `first_packet`
    start_time,      \* local `start_time`
    now,             \* time.ticks_ms()
    wait_deadline,   \* instant at which the pending wait_for_ms expires
    rpc,             \* position inside _receive_message
    rerr,            \* exception raised
    frame,           \* returned bytes (NoBytes while nothing was returned)
    delivered,       \* history: every value notified() has produced, in order
    \* ---- MinimalTeslaClient._send_fragmented ----
    s_connected,     \* is_connected() at entry
    s_data,          \* argument `data`
    chunk_size,      \* argument `chunk_size`
    s_i,             \* loop variable `i`
    spc,             \* position inside _send_fragmented
    s_err,           \* exception raised
    s_inflight,      \* chunk handed to write() and not yet acknowledged
    s_started,       \* history: chunks handed to write(), in order
    s_acked,         \* history: number of acknowledged writes
    \* ---- codec, parser and frame builders (pure functions) ----
    k_op,            \* the operation applied ("none" before)
    k_in,            \* its argument(s)
    k_out,           \* its result
    p_acc,           \* accumulator a parsed snapshot is merged into
    p_prev_acc,      \* history: that accumulator before the merge
    sg_counter,      \* MessageSigner.counter
    sg_calls,        \* number of sign_message calls so far
    \* ---- MinimalTeslaClient: device cache and disconnect() ----
    cached_mac,      \* self._cached_mac (None or an address)
    cache_timestamp, \* self._cache_timestamp (NoTime for None)
    dpc,             \* position inside disconnect()
    d_log,           \* history: transport calls of the current disconnect()
    \* ---- tasks that call send_body_controller_state_request ----
    x_pc,            \* per task: position inside its exchange
    x_i,             \* per task: loop variable i of its _send_fragmented
    x_wire,          \* history: chunks written to the transport, <<task, i>>
    \* ---- examples/monitor_state.py: monitor_loop ----
    mon_prev,        \* previous_state: None or a reference to the accumulator
    mon_out,         \* what the latest iteration printed
    h_polled,        \* history: the field values after the latest successful poll
    h_before,        \* history: the field values after the poll before that
    \* ---- MinimalTeslaClient.connect(force_scan, mac_address) ----
    g_now,           \* time.ticks_ms()
    g_args,          \* the arguments of the latest connect()
    g_log,           \* history: scans and connection attempts of that call
    g_result,        \* what that call returned or raised
    g_calls,         \* number of connect() calls so far
    \* ---- notifications between the vehicle and _receive_message ----
    q_pc,            \* position of the exchange
    q_req,           \* number of requests sent so far
    q_air,           \* fragments the vehicle has still to deliver, [req, data]
    q_queue,         \* notifications delivered and not yet taken by notified()
    q_packets,       \* `packets` of the current _receive_message
    q_first,         \* `first_packet`
    q_taken,         \* history: the request each accepted notification answers
    q_frame          \* the frame returned

mergeVars == <<m_self, m_prev_self, m_new_state, m_prev_new, m_changes, m_count, m_raised>>
clientVars == <<connection, write_char, read_char, vehicle_state, cpc, cerr, calls,
                c_new_state, acc_id, h_atCall, h_lastSet>>
recvVars == <<r_connected, packets, first_packet, start_time, now, wait_deadline,
              rpc, rerr, frame, delivered>>
sendVars == <<s_connected, s_data, chunk_size, s_i, spc, s_err, s_inflight,
              s_started, s_acked>>
codecVars == <<k_op, k_in, k_out, p_acc, p_prev_acc, sg_counter, sg_calls>>
connVars == <<cached_mac, cache_timestamp, dpc, d_log>>
taskVars == <<x_pc, x_i, x_wire>>
monVars == <<mon_prev, mon_out, h_polled, h_before>>
scanVars == <<g_now, g_args, g_log, g_result, g_calls>>
queueVars == <<q_pc, q_req, q_air, q_queue, q_packets, q_first, q_taken, q_frame>>
vars == <<mergeVars, clientVars, recvVars, sendVars, codecVars, connVars, taskVars,
          monVars, scanVars, queueVars>>

(***************************************************************************)
(* Bounds of the model.                                                    *)
(***************************************************************************)
MaxMerges == 2
MaxCont == 12
MaxFields == 2
MaxSigns == 2
MaxRespLen == 102
MaxSetFields == 1
MaxExchanges == 3
MaxConnects == 2
MaxNotifs == 3
TimeoutTicks == 2
MaxFrameLen == 61
SmallChunk == 7

Min(a, b) == IF a < b THEN a ELSE b

(***************************************************************************)
(* VehicleState                                                            *)
(***************************************************************************)
None == "None"

\* the list `fields` of update_from_response, in its order
fields ==
    << "front_driver_door", "front_passenger_door", "rear_driver_door",
       "rear_passenger_door", "front_trunk", "rear_trunk", "charge_port",
       "tonneau", "lock_state", "sleep_status", "user_presence" >>

Fields == {fields[k] : k \in 1..Len(fields)}

ClosureFields ==
    { "front_driver_door", "front_passenger_door", "rear_driver_door",
      "rear_passenger_door", "front_trunk", "rear_trunk", "charge_port", "tonneau" }

\* VehicleState.__init__: every attribute None
EmptyState == [f \in Fields |-> None]

\* the value a sparse snapshot gives a field; the parsed shapes below supply
\* the other values ("CLOSED", "LOCKED", "ASLEEP", "NOT_PRESENT")
AltValue(f) ==
    IF f \in ClosureFields THEN "OPEN"
    ELSE IF f = "lock_state" THEN "UNLOCKED"
    ELSE IF f = "sleep_status" THEN "AWAKE"
    ELSE "PRESENT"

SetFields(s) == {f \in Fields : s[f] # None}

\* snapshots with at most MaxSetFields attributes set
SparseSnapshots ==
    { [f \in Fields |-> IF f \in S THEN AltValue(f) ELSE None] :
          S \in {T \in SUBSET Fields : Cardinality(T) <= MaxSetFields} }

\* the shapes parse_body_controller_state builds: the direct shape sets all
\* eight closures (default "CLOSED"), the nested shape sets none of them
DirectSnapshot(open, lock, sleep, presence) ==
    [f \in Fields |->
        IF f \in ClosureFields THEN (IF f \in open THEN "OPEN" ELSE "CLOSED")
        ELSE IF f = "lock_state" THEN lock
        ELSE IF f = "sleep_status" THEN sleep
        ELSE presence]

NestedSnapshot(lock, sleep, presence) ==
    [f \in Fields |->
        IF f \in ClosureFields THEN None
        ELSE IF f = "lock_state" THEN lock
        ELSE IF f = "sleep_status" THEN sleep
        ELSE presence]

\* a few results of parse_body_controller_state, of both shapes
ParsedSnapshots ==
    { DirectSnapshot({}, "LOCKED", "ASLEEP", "NOT_PRESENT"),
      DirectSnapshot({"front_driver_door"}, "UNLOCKED", "AWAKE", "PRESENT"),
      DirectSnapshot({"rear_trunk"}, None, None, None),
      NestedSnapshot("LOCKED", None, None),
      NestedSnapshot(None, "AWAKE", None),
      NestedSnapshot(None, None, None) }

\* the arguments the model passes to update_from_response
Snapshots == SparseSnapshots \cup ParsedSnapshots

\* the empty dict
EmptyDict == [f \in {} |-> <<None, None>>]

\* changes[field] = (old_value, new_value)
DictSet(d, k, v) == [x \in (DOMAIN d) \cup {k} |-> IF x = k THEN v ELSE d[x]]

\* mutation of UpdateField: the "is not None" test is missing
UpdateField_NoNoneTest(self, changes, field, new_value) ==
    IF self[field] # new_value
    THEN [self |-> [self EXCEPT ![field] = new_value],
          changes |-> DictSet(changes, field, <<self[field], new_value>>)]
    ELSE [self |-> self, changes |-> changes]

\* mutation of UpdateField: the "old_value != new_value" test is missing
UpdateField_NoDiffTest(self, changes, field, new_value) ==
    IF new_value # None
    THEN [self |-> [self EXCEPT ![field] = new_value],
          changes |-> DictSet(changes, field, <<self[field], new_value>>)]
    ELSE [self |-> self, changes |-> changes]

\* mutation of UpdateField: the change is recorded but the attribute is not set
UpdateField_NoSetattr(self, changes, field, new_value) ==
    IF new_value # None /\ self[field] # new_value
    THEN [self |-> self,
          changes |-> DictSet(changes, field, <<self[field], new_value>>)]
    ELSE [self |-> self, changes |-> changes]

\* body of the loop of update_from_response for one field
UpdateField(self, changes, field, new_value) ==
    IF new_value # None
    THEN LET old_value == self[field]
         IN  IF old_value # new_value
             THEN [self |-> [self EXCEPT ![field] = new_value],
                   changes |-> DictSet(changes, field, <<old_value, new_value>>)]
             ELSE [self |-> self, changes |-> changes]
    ELSE [self |-> self, changes |-> changes]

RECURSIVE UpdateLoop(_, _, _, _)
\* `for field in fields:` from position k on
UpdateLoop(self, changes, new_state, k) ==
    IF k > Len(fields)
    THEN [self |-> self, changes |-> changes]
    ELSE LET r == UpdateField(self, changes, fields[k], new_state[fields[k]])
         IN  UpdateLoop(r.self, r.changes, new_state, k + 1)

\* update_from_response on a VehicleState argument: the new attributes and
\* the returned dict
update_from_response(self, new_state) == UpdateLoop(self, EmptyDict, new_state, 1)

\* marks an argument that is not a VehicleState instance
NotAVehicleState == [f \in Fields |-> "not a VehicleState"]


(***************************************************************************)
(* Byte strings.  None (no bytes object) is NoBytes.                       *)
(***************************************************************************)
NoBytes == <<-1>>

Fill(n, b) == [k \in 1..n |-> b]

\* data[lo:hi] of Python, 0-based, hi exclusive and clipped to len(data)
Slice(data, lo, hi) == SubSeq(data, lo + 1, Min(hi, Len(data)))

RECURSIVE Join(_)
\* b''.join(packets)
Join(ps) == IF ps = <<>> THEN <<>> ELSE Head(ps) \o Join(Tail(ps))

\* b in data
Contains(data, b) == \E k \in 1..Len(data) : data[k] = b

(***************************************************************************)
(* Initial states of the four parts.                                       *)
(***************************************************************************)
\* a freshly constructed VehicleState, no call made yet
MergeInit ==
    /\ m_self = EmptyState
    /\ m_prev_self = EmptyState
    /\ m_new_state = EmptyState
    /\ m_prev_new = EmptyState
    /\ m_changes = EmptyDict
    /\ m_count = 0
    /\ m_raised = "none"

\* MinimalTeslaClient.__init__
ClientInit ==
    /\ connection = FALSE
    /\ write_char = FALSE
    /\ read_char = FALSE
    /\ vehicle_state = <<>>
    /\ cpc = "idle"
    /\ cerr = "none"
    /\ calls = 0
    /\ c_new_state = EmptyState
    /\ acc_id = 0
    /\ h_atCall = <<>>
    /\ h_lastSet = EmptyState

\* a call of _receive_message(timeout_ms) about to start
RecvInit ==
    /\ r_connected \in BOOLEAN
    /\ packets = <<>>
    /\ first_packet = TRUE
    /\ now \in {0, 5}
    /\ start_time = 0
    /\ wait_deadline = 0
    /\ rpc = "idle"
    /\ rerr = "none"
    /\ frame = NoBytes
    /\ delivered = <<>>

\* the frames the model sends: length n, byte k is a function of k
FrameOfLen(n) == [k \in 1..n |-> (k * 7) % 256]

\* a call of _send_fragmented(data, chunk_size) about to start
SendInit ==
    /\ s_connected \in BOOLEAN
    /\ s_data \in {FrameOfLen(n) : n \in 0..MaxFrameLen}
    /\ chunk_size \in {20, SmallChunk}
    /\ s_i = 0
    /\ spc = "idle"
    /\ s_err = "none"
    /\ s_inflight = NoBytes
    /\ s_started = <<>>
    /\ s_acked = 0

\* no codec operation applied yet; a signer as MessageSigner.__init__ leaves it
CodecInit ==
    /\ k_op = "none"
    /\ k_in = <<>>
    /\ k_out = <<>>
    /\ p_acc = EmptyState
    /\ p_prev_acc = EmptyState
    /\ sg_counter = 0
    /\ sg_calls = 0

\* the two tasks that may call the client
Tasks == {1, 2}

\* self._cache_timestamp is None
NoTime == -1

\* the cache as __init__ leaves it; disconnect() not running
ConnInit ==
    /\ cached_mac = None
    /\ cache_timestamp = NoTime
    /\ dpc = "idle"
    /\ d_log = <<>>

\* no task has called the client
TaskInit ==
    /\ x_pc = [t \in Tasks |-> "idle"]
    /\ x_i = [t \in Tasks |-> 0]
    /\ x_wire = <<>>

\* monitor_loop before its first iteration
MonInit ==
    /\ mon_prev = None
    /\ mon_out = [kind |-> "none", changed |-> {}]
    /\ h_polled = EmptyState
    /\ h_before = EmptyState

\* no connect() call yet
ScanInit ==
    /\ g_now = 0
    /\ g_args = <<>>
    /\ g_log = <<>>
    /\ g_result = "none"
    /\ g_calls = 0

\* no request sent, nothing in the air, nothing queued
QueueInit ==
    /\ q_pc = "idle"
    /\ q_req = 0
    /\ q_air = <<>>
    /\ q_queue = <<>>
    /\ q_packets = <<>>
    /\ q_first = TRUE
    /\ q_taken = <<>>
    /\ q_frame = NoBytes

\* the parts a specification does not drive: one fixed initial state
MergeParked == MergeInit
ClientParked == ClientInit
RecvParked == RecvInit /\ r_connected = TRUE /\ now = 0
SendParked == SendInit /\ s_connected = TRUE /\ s_data = <<>> /\ chunk_size = 20
CodecParked == CodecInit
ConnParked == ConnInit
TaskParked == TaskInit
ExtParked == MonInit /\ ScanInit /\ QueueInit

(***************************************************************************)
(* Specification SpecMerge: calls of update_from_response on one           *)
(* accumulator.                                                            *)
(***************************************************************************)
\* self.update_from_response(arg)
UpdateFromResponse(arg) ==
    /\ m_count < MaxMerges
    /\ m_count' = m_count + 1
    /\ m_prev_self' = m_self
    /\ m_prev_new' = m_new_state
    /\ m_new_state' = arg
    /\ IF arg = NotAVehicleState
       THEN /\ m_raised' = "TypeError"
            /\ m_self' = m_self
            /\ m_changes' = EmptyDict
       ELSE LET r == update_from_response(m_self, arg)
            IN  /\ m_raised' = "none"
                /\ m_self' = r.self
                /\ m_changes' = r.changes
    /\ UNCHANGED <<clientVars, recvVars, sendVars, codecVars, connVars, taskVars, monVars, scanVars, queueVars>>

InitMerge == MergeInit /\ ClientParked /\ RecvParked /\ SendParked /\ CodecParked
    /\ ConnParked /\ TaskParked /\ ExtParked

NextMerge == \E arg \in Snapshots \cup {NotAVehicleState} : UpdateFromResponse(arg)

SpecMerge == InitMerge /\ [][NextMerge]_vars

\* the last call returned normally
Merged == m_count >= 1 /\ m_raised = "none"

\* C1: every field that is None in new_state keeps the accumulator's previous
\* value, and a snapshot with all eleven fields None returns an empty
\* change-set and leaves the accumulator unchanged.
C1_Retention ==
    Merged =>
        /\ \A f \in Fields : m_new_state[f] = None => m_self[f] = m_prev_self[f]
        /\ (\A f \in Fields : m_new_state[f] = None) =>
               (m_changes = EmptyDict /\ m_self = m_prev_self)

\* an all-None snapshot was merged into an accumulator that holds values
C1_Witness ==
    /\ Merged
    /\ m_new_state = EmptyState
    /\ m_prev_self # EmptyState
    /\ m_self = m_prev_self

\* C2: the returned mapping has exactly the fields that are set in new_state
\* and differ from the accumulator before the call, each mapped to
\* (old value, new value), and afterwards the accumulator agrees with
\* new_state on every field new_state sets.
C2_ChangeSetExact ==
    Merged =>
        /\ DOMAIN m_changes =
               {f \in Fields : m_new_state[f] # None /\ m_new_state[f] # m_prev_self[f]}
        /\ \A f \in DOMAIN m_changes : m_changes[f] = <<m_prev_self[f], m_new_state[f]>>
        /\ \A f \in Fields : m_new_state[f] # None => m_self[f] = m_new_state[f]

\* one call changed a field from unset to set and another from set to set,
\* and left a third set field out of the change-set because it did not differ
C2_Witness ==
    /\ Merged
    /\ \E f, g \in DOMAIN m_changes : m_changes[f][1] = None /\ m_changes[g][1] # None
    /\ \E f \in Fields \ DOMAIN m_changes : m_new_state[f] # None

\* C3: merging the same snapshot twice in a row gives an empty change-set on
\* the second merge and leaves the accumulator as the first merge left it.
C3_Idempotent ==
    (m_count >= 2 /\ m_raised = "none" /\ m_new_state = m_prev_new) =>
        (m_changes = EmptyDict /\ m_self = m_prev_self)

\* a fully-set snapshot was merged twice in a row
C3_Witness ==
    /\ m_count >= 2
    /\ m_raised = "none"
    /\ m_new_state = m_prev_new
    /\ SetFields(m_new_state) = Fields
    /\ m_changes = EmptyDict


(***************************************************************************)
(* Specification Spec: the client.  connect / disconnect and the exchange  *)
(* send_body_controller_state_request, one action per suspension point.    *)
(* The outcomes of the transport (write, notification, parse) are inputs.  *)
(***************************************************************************)
is_connected == connection /\ write_char /\ read_char

\* mutation of ConnectOk: an accumulator that exists is kept
ConnectOk_KeepState ==
    /\ cpc = "idle"
    /\ acc_id < MaxConnects
    /\ connection' = TRUE
    /\ write_char' = TRUE
    /\ read_char' = TRUE
    /\ vehicle_state' = IF vehicle_state = <<>> THEN <<EmptyState>> ELSE vehicle_state
    /\ acc_id' = acc_id + 1
    /\ h_lastSet' = IF vehicle_state = <<>> THEN EmptyState ELSE h_lastSet
    /\ UNCHANGED <<cpc, cerr, calls, c_new_state, h_atCall>>
    /\ UNCHANGED <<mergeVars, recvVars, sendVars, codecVars, connVars, taskVars, monVars, scanVars, queueVars>>

\* connect() runs to its end: fresh VehicleState for this connection
ConnectOk ==
    /\ cpc = "idle"
    /\ acc_id < MaxConnects
    /\ connection' = TRUE
    /\ write_char' = TRUE
    /\ read_char' = TRUE
    /\ vehicle_state' = <<EmptyState>>
    /\ acc_id' = acc_id + 1
    /\ h_lastSet' = EmptyState
    /\ UNCHANGED <<cpc, cerr, calls, c_new_state, h_atCall>>
    /\ UNCHANGED <<mergeVars, recvVars, sendVars, codecVars, connVars, taskVars, monVars, scanVars, queueVars>>

\* connect() fails with an exception other than asyncio.TimeoutError: the
\* handler calls disconnect(), which clears the connection state
ConnectError ==
    /\ cpc = "idle"
    /\ connection' = FALSE
    /\ write_char' = FALSE
    /\ read_char' = FALSE
    /\ UNCHANGED <<vehicle_state, cpc, cerr, calls, c_new_state, acc_id, h_atCall, h_lastSet>>
    /\ UNCHANGED <<mergeVars, recvVars, sendVars, codecVars, connVars, taskVars, monVars, scanVars, queueVars>>

\* connect() is interrupted by asyncio.TimeoutError, which is re-raised
\* without cleanup.  stage: 1 in device.connect() (scan path), 2 in the second
\* device.connect() of the cached path, 3 in characteristic(write_uuid),
\* 4 in characteristic(read_uuid), 5 in subscribe()
ConnectTimeout(stage) ==
    /\ cpc = "idle"
    /\ connection' = IF stage = 1 THEN connection ELSE (stage # 2)
    /\ write_char' = IF stage <= 3 THEN write_char ELSE TRUE
    /\ read_char' = IF stage <= 4 THEN read_char ELSE TRUE
    /\ UNCHANGED <<vehicle_state, cpc, cerr, calls, c_new_state, acc_id, h_atCall, h_lastSet>>
    /\ UNCHANGED <<mergeVars, recvVars, sendVars, codecVars, connVars, taskVars, monVars, scanVars, queueVars>>

\* disconnect(): clears the connection state, keeps _vehicle_state
Disconnect ==
    /\ cpc = "idle"
    /\ connection' = FALSE
    /\ write_char' = FALSE
    /\ read_char' = FALSE
    /\ UNCHANGED <<vehicle_state, cpc, cerr, calls, c_new_state, acc_id, h_atCall, h_lastSet>>
    /\ UNCHANGED <<mergeVars, recvVars, sendVars, codecVars, connVars, taskVars, monVars, scanVars, queueVars>>

\* the exchange ends with exception e
Raise(e) ==
    /\ cpc' = "raised"
    /\ cerr' = e

\* send_body_controller_state_request is called: connection check, request
\* built, _send_fragmented entered
ReqEnter ==
    /\ cpc = "idle"
    /\ calls < MaxExchanges
    /\ calls' = calls + 1
    /\ h_atCall' = vehicle_state
    /\ IF is_connected
       THEN cpc' = "send" /\ cerr' = "none"
       ELSE Raise("ConnectionError")
    /\ UNCHANGED <<connection, write_char, read_char, vehicle_state, c_new_state, acc_id, h_lastSet>>
    /\ UNCHANGED <<mergeVars, recvVars, sendVars, codecVars, connVars, taskVars, monVars, scanVars, queueVars>>

\* _send_fragmented wrote every chunk
SendOk ==
    /\ cpc = "send"
    /\ cpc' = "recv"
    /\ UNCHANGED <<connection, write_char, read_char, vehicle_state, cerr, calls,
                   c_new_state, acc_id, h_atCall, h_lastSet>>
    /\ UNCHANGED <<mergeVars, recvVars, sendVars, codecVars, connVars, taskVars, monVars, scanVars, queueVars>>

\* a chunk write failed
SendFail ==
    /\ cpc = "send"
    /\ Raise("ConnectionError")
    /\ UNCHANGED <<connection, write_char, read_char, vehicle_state, calls,
                   c_new_state, acc_id, h_atCall, h_lastSet>>
    /\ UNCHANGED <<mergeVars, recvVars, sendVars, codecVars, connVars, taskVars, monVars, scanVars, queueVars>>

\* _receive_message returned a frame
RecvOk ==
    /\ cpc = "recv"
    /\ cpc' = "parse"
    /\ UNCHANGED <<connection, write_char, read_char, vehicle_state, cerr, calls,
                   c_new_state, acc_id, h_atCall, h_lastSet>>
    /\ UNCHANGED <<mergeVars, recvVars, sendVars, codecVars, connVars, taskVars, monVars, scanVars, queueVars>>

\* _receive_message raised TimeoutError
RecvTimeout ==
    /\ cpc = "recv"
    /\ Raise("TimeoutError")
    /\ UNCHANGED <<connection, write_char, read_char, vehicle_state, calls,
                   c_new_state, acc_id, h_atCall, h_lastSet>>
    /\ UNCHANGED <<mergeVars, recvVars, sendVars, codecVars, connVars, taskVars, monVars, scanVars, queueVars>>

\* mutation of ParseFail: the fields decoded before the failure are merged
ParseFail_PartialMerge ==
    /\ cpc = "parse"
    /\ Raise("ValueError")
    /\ \E s \in ParsedSnapshots :
        vehicle_state' = IF vehicle_state = <<>> THEN <<>>
                         ELSE <<update_from_response(vehicle_state[1], s).self>>
    /\ UNCHANGED <<connection, write_char, read_char, calls,
                   c_new_state, acc_id, h_atCall, h_lastSet>>
    /\ UNCHANGED <<mergeVars, recvVars, sendVars, codecVars, connVars, taskVars, monVars, scanVars, queueVars>>

\* parse_body_controller_state raised: re-raised as ValueError
ParseFail ==
    /\ cpc = "parse"
    /\ Raise("ValueError")
    /\ UNCHANGED <<connection, write_char, read_char, vehicle_state, calls,
                   c_new_state, acc_id, h_atCall, h_lastSet>>
    /\ UNCHANGED <<mergeVars, recvVars, sendVars, codecVars, connVars, taskVars, monVars, scanVars, queueVars>>

\* parse_body_controller_state returned new_state; it is merged into
\* self._vehicle_state, which is then returned (AttributeError when
\* _vehicle_state is still None)
ParseAndMerge(new_state) ==
    /\ cpc = "parse"
    /\ c_new_state' = new_state
    /\ IF vehicle_state = <<>>
       THEN /\ Raise("AttributeError")
            /\ UNCHANGED <<vehicle_state, h_lastSet>>
       ELSE /\ vehicle_state' = <<update_from_response(vehicle_state[1], new_state).self>>
            /\ h_lastSet' = [f \in Fields |->
                               IF new_state[f] # None THEN new_state[f] ELSE h_lastSet[f]]
            /\ cpc' = "returned"
            /\ cerr' = "none"
    /\ UNCHANGED <<connection, write_char, read_char, calls, acc_id, h_atCall>>
    /\ UNCHANGED <<mergeVars, recvVars, sendVars, codecVars, connVars, taskVars, monVars, scanVars, queueVars>>

\* the caller has the result or the exception; the client is idle again
Finish ==
    /\ cpc \in {"returned", "raised"}
    /\ cpc' = "idle"
    /\ UNCHANGED <<connection, write_char, read_char, vehicle_state, cerr, calls,
                   c_new_state, acc_id, h_atCall, h_lastSet>>
    /\ UNCHANGED <<mergeVars, recvVars, sendVars, codecVars, connVars, taskVars, monVars, scanVars, queueVars>>

Init == MergeParked /\ ClientInit /\ RecvParked /\ SendParked /\ CodecParked
    /\ ConnParked /\ TaskParked /\ ExtParked

Next ==
    \/ ConnectOk
    \/ ConnectError
    \/ \E stage \in 1..5 : ConnectTimeout(stage)
    \/ Disconnect
    \/ ReqEnter
    \/ SendOk
    \/ SendFail
    \/ RecvOk
    \/ RecvTimeout
    \/ ParseFail
    \/ \E s \in ParsedSnapshots : ParseAndMerge(s)
    \/ Finish

Spec == Init /\ [][Next]_vars

\* C4: after any sequence of merges each field of the accumulator equals the
\* value of the most recent snapshot that set it (unset only if none did
\* since the accumulator was created), and a set field never becomes unset
\* while the same accumulator is in use.
C4_LastSetWins ==
    /\ [](vehicle_state # <<>> => vehicle_state[1] = h_lastSet)
    /\ [][(vehicle_state # <<>> /\ acc_id' = acc_id) =>
            /\ vehicle_state' # <<>>
            /\ \A f \in Fields :
                  vehicle_state[1][f] # None => vehicle_state'[1][f] # None]_vars

\* a second or later merge overwrote one field and kept another that the
\* merged snapshot left unset
C4_Witness ==
    /\ cpc = "returned"
    /\ calls >= 2
    /\ \E f \in Fields : c_new_state[f] = None /\ vehicle_state[1][f] # None
    /\ \E g \in Fields : /\ h_atCall[1][g] # None
                         /\ c_new_state[g] # None
                         /\ c_new_state[g] # h_atCall[1][g]

\* C5: whenever the exchange raises, the accumulator is the one the call
\* started with, field for field; the accumulator changes only in the merge
\* that follows a successful parse (or when connect() creates a fresh one).
C5_FailureKeepsState ==
    /\ [](cpc = "raised" => vehicle_state = h_atCall)
    /\ [][vehicle_state' # vehicle_state =>
            \/ cpc = "parse" /\ cpc' = "returned"
            \/ cpc = "idle" /\ acc_id' = acc_id + 1]_vars

\* an exchange timed out / failed to parse on an accumulator that holds values
C5_Witness ==
    /\ cpc = "raised"
    /\ cerr \in {"TimeoutError", "ValueError"}
    /\ vehicle_state # <<>>
    /\ vehicle_state[1] # EmptyState


(***************************************************************************)
(* Specification SpecRecv: one call of _receive_message(timeout_ms).       *)
(* Time is counted in ticks; timeout_ms is TimeoutTicks.  The clock may    *)
(* advance between any two steps of the coroutine.                         *)
(***************************************************************************)
ErrorPacket == <<34, 1, 1>>

\* what notified() may produce: None, the error packet, a packet with the
\* 3-byte length header, short packets starting with 0x00, fillers without
\* the byte 0x52, a packet carrying 0x52, a packet that only starts like the
\* error packet
Notifications ==
    { NoBytes,
      ErrorPacket,
      <<0, 0, 40>> \o Fill(17, 10),
      <<0, 9>>,
      Fill(20, 10),
      <<82>> \o Fill(19, 10),
      Fill(60, 10),
      <<34, 1, 1, 7>> }

\* mutation of IsErrorPacket: compared with the wrong constant
IsErrorPacket_WrongBytes(data) == data = <<34, 1>>

\* data == b'\x22\x01\x01'
IsErrorPacket(data) == data = ErrorPacket

\* len(data) >= 3 and data[0] == 0x00
HasLengthHeader(data) == Len(data) >= 3 /\ data[1] = 0

\* mutation of StorePacket: the header is stripped from every packet
StorePacket_StripAlways(ps, first, data) ==
    IF HasLengthHeader(data) THEN Append(ps, Slice(data, 3, Len(data)))
    ELSE Append(ps, data)

\* the `if first_packet: ... else: ...` block: the new `packets`
StorePacket(ps, first, data) ==
    IF first
    THEN IF HasLengthHeader(data)
         THEN Append(ps, Slice(data, 3, Len(data)))
         ELSE Append(ps, data)
    ELSE Append(ps, data)

\* total_received = sum(len(p) for p in packets)
TotalReceived(ps) == Len(Join(ps))

\* mutation of Complete: 0x52 is looked for in the whole message
Complete_NoWindow(ps) ==
    \/ TotalReceived(ps) >= 30 /\ Contains(Join(ps), 82)
    \/ TotalReceived(ps) >= 100

\* the two `break` conditions after a packet was stored
Complete(ps) ==
    \/ TotalReceived(ps) >= 30 /\ Contains(Slice(Join(ps), 0, 50), 82)
    \/ TotalReceived(ps) >= 100

\* code after the loop: b'\x32' + b''.join(packets)
Reassemble(ps) == <<50>> \o Join(ps)

\* mutation of HasPackets: a timeout always ends the loop
HasPackets_Always(ps) == TRUE

\* len(packets) > 0 in the asyncio.TimeoutError handler
HasPackets(ps) == Len(ps) > 0

\* entry: connection check, locals initialised
RecvEnter ==
    /\ rpc = "idle"
    /\ IF r_connected
       THEN /\ rpc' = "loop"
            /\ packets' = <<>>
            /\ start_time' = now
            /\ first_packet' = TRUE
            /\ rerr' = "none"
       ELSE /\ rpc' = "raised"
            /\ rerr' = "ConnectionError"
            /\ UNCHANGED <<packets, start_time, first_packet>>
    /\ UNCHANGED <<r_connected, now, wait_deadline, frame, delivered>>
    /\ UNCHANGED <<mergeVars, clientVars, sendVars, codecVars, connVars, taskVars, monVars, scanVars, queueVars>>

\* mutation of LoopTop: no timeout check, the wait gets what time is left
LoopTop_NoTimeoutCheck ==
    /\ rpc = "loop"
    /\ LET elapsed == now - start_time
       IN  /\ rpc' = "wait"
           /\ wait_deadline' = IF elapsed >= TimeoutTicks THEN now
                                ELSE now + (TimeoutTicks - elapsed)
           /\ UNCHANGED rerr
    /\ UNCHANGED <<r_connected, packets, first_packet, start_time, now, frame, delivered>>
    /\ UNCHANGED <<mergeVars, clientVars, sendVars, codecVars, connVars, taskVars, monVars, scanVars, queueVars>>

\* top of `while True`: timeout check, then wait_for_ms(notified(), remaining)
LoopTop ==
    /\ rpc = "loop"
    /\ LET elapsed == now - start_time
       IN  IF elapsed >= TimeoutTicks
           THEN /\ rpc' = "raised"
                /\ rerr' = "TimeoutError"
                /\ UNCHANGED wait_deadline
           ELSE /\ rpc' = "wait"
                /\ wait_deadline' = now + (TimeoutTicks - elapsed)
                /\ UNCHANGED rerr
    /\ UNCHANGED <<r_connected, packets, first_packet, start_time, now, frame, delivered>>
    /\ UNCHANGED <<mergeVars, clientVars, sendVars, codecVars, connVars, taskVars, monVars, scanVars, queueVars>>

\* the wait returns `data`; the rest of the loop body runs, and on `break`
\* the code after the loop up to `return`
Notified(data) ==
    /\ rpc = "wait"
    /\ now <= wait_deadline
    /\ Len(delivered) < MaxNotifs
    /\ delivered' = Append(delivered, data)
    /\ IF data = NoBytes \/ IsErrorPacket(data)
       THEN /\ rpc' = "loop"
            /\ UNCHANGED <<packets, first_packet, frame>>
       ELSE LET ps == StorePacket(packets, first_packet, data)
            IN  /\ packets' = ps
                /\ first_packet' = FALSE
                /\ IF Complete(ps)
                   THEN rpc' = "done" /\ frame' = Reassemble(ps)
                   ELSE rpc' = "loop" /\ UNCHANGED frame
    /\ UNCHANGED <<r_connected, start_time, now, wait_deadline, rerr>>
    /\ UNCHANGED <<mergeVars, clientVars, sendVars, codecVars, connVars, taskVars, monVars, scanVars, queueVars>>

\* the wait raises asyncio.TimeoutError
WaitTimeout ==
    /\ rpc = "wait"
    /\ now >= wait_deadline
    /\ IF HasPackets(packets)
       THEN rpc' = "done" /\ frame' = Reassemble(packets)
       ELSE rpc' = "loop" /\ UNCHANGED frame
    /\ UNCHANGED <<r_connected, packets, first_packet, start_time, now, wait_deadline,
                   rerr, delivered>>
    /\ UNCHANGED <<mergeVars, clientVars, sendVars, codecVars, connVars, taskVars, monVars, scanVars, queueVars>>

\* the wait raises any other exception: logged and re-raised
NotifiedError ==
    /\ rpc = "wait"
    /\ rpc' = "raised"
    /\ rerr' = "DeviceError"
    /\ UNCHANGED <<r_connected, packets, first_packet, start_time, now, wait_deadline,
                   frame, delivered>>
    /\ UNCHANGED <<mergeVars, clientVars, sendVars, codecVars, connVars, taskVars, monVars, scanVars, queueVars>>

\* time.ticks_ms() advances
Tick ==
    /\ rpc \in {"loop", "wait"}
    /\ now - start_time <= TimeoutTicks
    /\ now' = now + 1
    /\ UNCHANGED <<r_connected, packets, first_packet, start_time, wait_deadline,
                   rpc, rerr, frame, delivered>>
    /\ UNCHANGED <<mergeVars, clientVars, sendVars, codecVars, connVars, taskVars, monVars, scanVars, queueVars>>

InitRecv == MergeParked /\ ClientParked /\ RecvInit /\ SendParked /\ CodecParked
    /\ ConnParked /\ TaskParked /\ ExtParked

NextRecv ==
    \/ RecvEnter
    \/ LoopTop
    \/ \E data \in Notifications : Notified(data)
    \/ WaitTimeout
    \/ NotifiedError
    \/ Tick

SpecRecv == InitRecv /\ [][NextRecv]_vars

\* a notification that is neither None nor the 3-byte error packet
IsAccepted(d) == d # NoBytes /\ d # <<34, 1, 1>>

AcceptedOf(ds) == SelectSeq(ds, IsAccepted)

\* the first accepted notification without its length header
StripFirst(d) == IF Len(d) >= 3 /\ d[1] = 0 THEN SubSeq(d, 4, Len(d)) ELSE d

\* what the accepted notifications should contribute to the frame
ExpectedPayload(ds) ==
    IF AcceptedOf(ds) = <<>> THEN <<>>
    ELSE StripFirst(Head(AcceptedOf(ds))) \o Join(Tail(AcceptedOf(ds)))

\* C6: a notification equal to 0x22 0x01 0x01 is dropped wherever it occurs:
\* the step that receives it leaves `packets` and `first_packet` as they are
\* and goes back to the top of the loop without a completion check, so that
\* `packets` always holds one entry per accepted notification.
C6_ErrorPacketDropped ==
    /\ [][delivered' = Append(delivered, <<34, 1, 1>>) =>
            /\ packets' = packets
            /\ first_packet' = first_packet
            /\ frame' = frame
            /\ rpc' = "loop"]_vars
    /\ [](/\ Len(packets) = Len(AcceptedOf(delivered))
          /\ first_packet = (AcceptedOf(delivered) = <<>>)
          /\ TotalReceived(packets) = Len(ExpectedPayload(delivered)))

\* a frame was returned after an error packet arrived between two accepted
\* notifications
C6_Witness ==
    /\ rpc = "done"
    /\ Len(delivered) = 3
    /\ IsAccepted(delivered[1])
    /\ delivered[2] = <<34, 1, 1>>
    /\ IsAccepted(delivered[3])

\* C7: the returned frame is 0x32 followed by the accepted notifications in
\* arrival order, the first one without its leading 3 bytes when it has at
\* least 3 bytes and starts with 0x00, the later ones never stripped.
C7_Reassembly ==
    rpc = "done" =>
        /\ frame = <<50>> \o ExpectedPayload(delivered)
        /\ frame[1] = 50

\* the first accepted notification had its header stripped and a later one,
\* which also starts with 0x00 and has 3 bytes or more, was kept whole
C7_Witness ==
    /\ rpc = "done"
    /\ Len(AcceptedOf(delivered)) >= 2
    /\ HasLengthHeader(AcceptedOf(delivered)[1])
    /\ HasLengthHeader(AcceptedOf(delivered)[2])

\* C8: with no notification accepted the call never returns a frame, and
\* once the timeout has elapsed it raises TimeoutError.
C8_TimeoutWithoutPackets ==
    /\ [](rpc = "done" => packets # <<>>)
    /\ [](rpc = "raised" => frame = NoBytes)
    /\ [][(rpc = "loop" /\ packets = <<>> /\ now - start_time >= TimeoutTicks
             /\ rpc' # "loop") =>
            (rpc' = "raised" /\ rerr' = "TimeoutError" /\ frame' = NoBytes)]_vars

\* the call timed out although notifications arrived: all were dropped
C8_Witness ==
    /\ rpc = "raised"
    /\ rerr = "TimeoutError"
    /\ packets = <<>>
    /\ delivered # <<>>
    /\ frame = NoBytes

\* C9: once a notification has been accepted the call does not end with
\* TimeoutError; it returns 0x32 followed by the bytes accumulated so far.
C9_GracefulAfterPacket ==
    (packets # <<>> /\ rpc \in {"done", "raised"} /\ rerr # "DeviceError") =>
        (rpc = "done" /\ frame = <<50>> \o Join(packets))


(***************************************************************************)
(* Specification SpecSend: one call of _send_fragmented(data, chunk_size). *)
(* write(chunk, response=True) is split into the hand-over of the chunk    *)
(* and its acknowledgement (or failure).                                   *)
(***************************************************************************)
\* mutation of Chunk: the slice ends one byte early
Chunk_OffByOne(data, i, size) == Slice(data, i, i + size - 1)

\* chunk = data[i:i+chunk_size]
Chunk(data, i, size) == Slice(data, i, i + size)

\* entry: connection check
SendEnter ==
    /\ spc = "idle"
    /\ IF s_connected
       THEN spc' = "loop" /\ s_i' = 0 /\ UNCHANGED s_err
       ELSE spc' = "raised" /\ s_err' = "ConnectionError" /\ UNCHANGED s_i
    /\ UNCHANGED <<s_connected, s_data, chunk_size, s_inflight, s_started, s_acked>>
    /\ UNCHANGED <<mergeVars, clientVars, recvVars, codecVars, connVars, taskVars, monVars, scanVars, queueVars>>

\* `for i in range(0, len(data), chunk_size)`: the next chunk is handed to
\* write(), or the loop is over and the call returns
WriteStart ==
    /\ spc = "loop"
    /\ IF s_i < Len(s_data)
       THEN /\ s_inflight' = Chunk(s_data, s_i, chunk_size)
            /\ s_started' = Append(s_started, Chunk(s_data, s_i, chunk_size))
            /\ spc' = "write"
       ELSE /\ spc' = "done"
            /\ UNCHANGED <<s_inflight, s_started>>
    /\ UNCHANGED <<s_connected, s_data, chunk_size, s_i, s_err, s_acked>>
    /\ UNCHANGED <<mergeVars, clientVars, recvVars, codecVars, connVars, taskVars, monVars, scanVars, queueVars>>

\* the write is acknowledged; sleep_ms(50) follows
WriteAck ==
    /\ spc = "write"
    /\ s_inflight' = NoBytes
    /\ s_acked' = s_acked + 1
    /\ spc' = "sleep"
    /\ UNCHANGED <<s_connected, s_data, chunk_size, s_i, s_err, s_started>>
    /\ UNCHANGED <<mergeVars, clientVars, recvVars, codecVars, connVars, taskVars, monVars, scanVars, queueVars>>

\* mutation of WriteFail: the exception is logged and the loop goes on
WriteFail_Swallow ==
    /\ spc = "write"
    /\ s_inflight' = NoBytes
    /\ spc' = "sleep"
    /\ UNCHANGED <<s_connected, s_data, chunk_size, s_i, s_err, s_started, s_acked>>
    /\ UNCHANGED <<mergeVars, clientVars, recvVars, codecVars, connVars, taskVars, monVars, scanVars, queueVars>>

\* the write raises: ConnectionError, remaining chunks are not sent
WriteFail ==
    /\ spc = "write"
    /\ s_inflight' = NoBytes
    /\ spc' = "raised"
    /\ s_err' = "ConnectionError"
    /\ UNCHANGED <<s_connected, s_data, chunk_size, s_i, s_started, s_acked>>
    /\ UNCHANGED <<mergeVars, clientVars, recvVars, codecVars, connVars, taskVars, monVars, scanVars, queueVars>>

\* the pacing delay is over: next value of the range
SleepDone ==
    /\ spc = "sleep"
    /\ s_i' = s_i + chunk_size
    /\ spc' = "loop"
    /\ UNCHANGED <<s_connected, s_data, chunk_size, s_err, s_inflight, s_started, s_acked>>
    /\ UNCHANGED <<mergeVars, clientVars, recvVars, codecVars, connVars, taskVars, monVars, scanVars, queueVars>>

InitSend == MergeParked /\ ClientParked /\ RecvParked /\ SendInit /\ CodecParked
    /\ ConnParked /\ TaskParked /\ ExtParked

NextSend ==
    \/ SendEnter
    \/ WriteStart
    \/ WriteAck
    \/ WriteFail
    \/ SleepDone

SpecSend == InitSend /\ [][NextSend]_vars

\* C10: the chunks are written in order and one at a time: a chunk is handed
\* to write() only when every earlier one was acknowledged; what has been
\* written is always a prefix of the frame; when the call returns, the
\* chunks concatenate to the frame, all but the last have chunk_size bytes
\* and the last has 1..chunk_size bytes (52 bytes go out as 20, 20, 12).
C10_ChunksInOrder ==
    /\ Len(s_started) - s_acked \in {0, 1}
    /\ (spc = "write") = (s_inflight # NoBytes)
    /\ (spc = "write") => (Len(s_started) = s_acked + 1 /\ s_inflight = s_started[Len(s_started)])
    /\ Join(s_started) = SubSeq(s_data, 1, Len(Join(s_started)))
    /\ \A k \in 1..(Len(s_started) - 1) : Len(s_started[k]) = chunk_size
    /\ spc = "done" =>
          /\ Join(s_started) = s_data
          /\ s_acked = Len(s_started)
          /\ s_started # <<>> =>
                (LET last == Len(s_started[Len(s_started)])
                 IN  1 <= last /\ last <= chunk_size)
          /\ (Len(s_data) = 52 /\ chunk_size = 20) =>
                (/\ Len(s_started) = 3
                 /\ Len(s_started[1]) = 20
                 /\ Len(s_started[2]) = 20
                 /\ Len(s_started[3]) = 12)

\* a 52-byte frame was sent completely with the default chunk size
C10_Witness ==
    /\ spc = "done"
    /\ Len(s_data) = 52
    /\ chunk_size = 20
    /\ Len(s_started) = 3
    /\ s_acked = 3


(***************************************************************************)
(* Specification SpecExchange: the client together with the                *)
(* _send_fragmented call of its exchange.  The request is the 52-byte      *)
(* frame sent with the default chunk size; SendOk / SendFail of the client *)
(* happen when the send call has returned / raised.                        *)
(***************************************************************************)
InitExchange ==
    /\ MergeParked /\ ClientInit /\ RecvParked /\ CodecParked
    /\ ConnParked /\ TaskParked /\ ExtParked
    /\ SendInit
    /\ s_connected = TRUE
    /\ s_data = FrameOfLen(52)
    /\ chunk_size = 20

NextExchange ==
    \/ ConnectOk
    \/ ConnectError
    \/ \E stage \in 1..5 : ConnectTimeout(stage)
    \/ Disconnect
    \/ (spc = "idle" /\ ReqEnter)
    \/ (cpc = "send" /\ SendEnter)
    \/ (cpc = "send" /\ WriteStart)
    \/ (cpc = "send" /\ WriteAck)
    \/ (cpc = "send" /\ WriteFail)
    \/ (cpc = "send" /\ SleepDone)
    \/ (spc = "done" /\ SendOk)
    \/ (spc = "raised" /\ SendFail)
    \/ RecvOk
    \/ RecvTimeout
    \/ ParseFail
    \/ \E s \in ParsedSnapshots : ParseAndMerge(s)
    \/ Finish

SpecExchange == InitExchange /\ [][NextExchange]_vars

\* C11: a failed chunk write makes _send_fragmented raise at once; the failed
\* chunk is the last one handed to write(), the chunks before it were written
\* once each, and the exchange fails with ConnectionError without reaching
\* the receive or the merge.
C11_WriteFailureAborts ==
    /\ [](spc = "raised" =>
            /\ s_err = "ConnectionError"
            /\ s_inflight = NoBytes
            /\ Len(s_started) = s_acked + 1
            /\ Join(s_started) = SubSeq(s_data, 1, Len(Join(s_started)))
            /\ cpc \in {"send", "raised", "idle"}
            /\ (cpc = "raised" => cerr = "ConnectionError")
            /\ (cpc # "idle" => vehicle_state = h_atCall))
    /\ [][(spc = "write" /\ spc' # "write" /\ s_acked' = s_acked) => spc' = "raised"]_vars
    /\ [][spc = "raised" => (spc' = "raised" /\ s_started' = s_started)]_vars

\* the write of the second chunk failed and the exchange raised
C11_Witness ==
    /\ spc = "raised"
    /\ cpc = "raised"
    /\ cerr = "ConnectionError"
    /\ s_acked = 1
    /\ Len(s_started) = 2


(***************************************************************************)
(* The protobuf wire codec of parser.py and the frame builders.            *)
(* Byte strings are sequences of 0..255; offsets are 0-based as in the     *)
(* code.  A parsed field is a record [fn, wt, num, bytes]: num carries the  *)
(* value of a varint field (wire type 0), bytes the content of a           *)
(* length-delimited one (wire type 2).  A dict is the sequence of its      *)
(* entries in insertion order.                                             *)
(***************************************************************************)

\* x << s for the values the model decodes (no multiplication when x = 0)
Shl(x, s) == IF x = 0 THEN 0 ELSE x * (2 ^ s)

VarintFail(pos) == [ok |-> FALSE, value |-> 0, pos |-> pos]

RECURSIVE ReadVarintLoop(_, _, _, _)
\* the while loop of _read_varint; the groups are bit-disjoint, so |= is +
ReadVarintLoop(data, pos, result, shift) ==
    IF pos >= Len(data)
    THEN VarintFail(pos)
    ELSE LET byte == data[pos + 1]
             r == result + Shl(byte % 128, shift)
         IN  IF byte < 128
             THEN [ok |-> TRUE, value |-> r, pos |-> pos + 1]
             ELSE ReadVarintLoop(data, pos + 1, r, shift + 7)

\* mutation of read_varint: more than 10 groups are rejected
read_varint_GroupLimit(data, offset) ==
    LET r == ReadVarintLoop(data, offset, 0, 0)
    IN  IF r.ok /\ r.pos - offset > 10 THEN VarintFail(r.pos) ELSE r

\* _read_varint(data, offset): ok = FALSE is the ValueError
read_varint(data, offset) == ReadVarintLoop(data, offset, 0, 0)

FieldFail == [ok |-> FALSE, fn |-> 0, wt |-> 0, num |-> 0, bytes |-> <<>>, pos |-> 0]

\* mutation of parse_field: only varint fields are supported
parse_field_VarintOnly(data, offset) ==
    IF offset >= Len(data)
    THEN FieldFail
    ELSE LET tag == read_varint(data, offset)
             v == read_varint(data, tag.pos)
         IN  IF ~tag.ok \/ tag.value % 8 # 0 \/ ~v.ok THEN FieldFail
             ELSE [ok |-> TRUE, fn |-> tag.value \div 8, wt |-> 0,
                   num |-> v.value, bytes |-> <<>>, pos |-> v.pos]

\* _parse_field(data, offset): ok = FALSE is the ValueError
parse_field(data, offset) ==
    IF offset >= Len(data)
    THEN FieldFail
    ELSE LET tag == read_varint(data, offset)
             field_num == tag.value \div 8
             wire_type == tag.value % 8
         IN  IF ~tag.ok THEN FieldFail
             ELSE IF wire_type = 0
             THEN LET v == read_varint(data, tag.pos)
                  IN  IF ~v.ok THEN FieldFail
                      ELSE [ok |-> TRUE, fn |-> field_num, wt |-> 0,
                            num |-> v.value, bytes |-> <<>>, pos |-> v.pos]
             ELSE IF wire_type = 2
             THEN LET l == read_varint(data, tag.pos)
                  IN  IF ~l.ok THEN FieldFail
                      ELSE [ok |-> TRUE, fn |-> field_num, wt |-> 2, num |-> 0,
                            bytes |-> Slice(data, l.pos, l.pos + l.value),
                            pos |-> l.pos + l.value]
             ELSE FieldFail

Entry(f) == [fn |-> f.fn, wt |-> f.wt, num |-> f.num, bytes |-> f.bytes]

\* k in d
Has(d, k) == \E i \in 1..Len(d) : d[i].fn = k

\* d[k], for k in d
Get(d, k) == d[CHOOSE i \in 1..Len(d) : d[i].fn = k]

\* mutation of Put: an existing key keeps its first value
Put_FirstWins(d, e) ==
    IF Has(d, e.fn) THEN d ELSE Append(d, e)

\* d[e.fn] = (e.wt, value): a new key is appended, an existing one is
\* overwritten in place
Put(d, e) ==
    IF Has(d, e.fn)
    THEN [i \in 1..Len(d) |-> IF d[i].fn = e.fn THEN e ELSE d[i]]
    ELSE Append(d, e)

RECURSIVE ParseLoop(_, _, _)
\* the while loop of _parse_message_fields: any exception of _parse_field
\* ends the loop
ParseLoop(data, offset, flds) ==
    IF offset >= Len(data)
    THEN flds
    ELSE LET f == parse_field(data, offset)
         IN  IF ~f.ok THEN flds
             ELSE ParseLoop(data, f.pos, Put(flds, Entry(f)))

\* _parse_message_fields(data), data a byte string
parse_message_fields(data) == ParseLoop(data, 0, <<>>)

RECURSIVE encode_varint(_)
\* MessageSigner._encode_varint(value)
encode_varint(value) ==
    IF value > 127
    THEN <<(value % 128) + 128>> \o encode_varint(value \div 128)
    ELSE <<value % 128>>

\* MessageSigner._encode_length_delimited(data)
encode_length_delimited(data) ==
    IF Len(data) < 128
    THEN <<Len(data)>> \o data
    ELSE encode_varint(Len(data)) \o data

(***************************************************************************)
(* The same encoder and decoder on integers beyond 2^31: an integer is     *)
(* [hi, lo] with value hi * 2^28 + lo and lo < 2^28.  A 7-bit group never  *)
(* straddles the two halves, 28 being a multiple of 7.                     *)
(***************************************************************************)
\* value > 0x7f
WideAbove7f(w) == w.hi > 0 \/ w.lo > 127

\* mutation of WideShr7: the bits of the upper half are lost
WideShr7_NoCarry(w) ==
    [hi |-> w.hi \div 128, lo |-> w.lo \div 128]

\* value >> 7
WideShr7(w) ==
    [hi |-> w.hi \div 128, lo |-> (w.lo \div 128) + (w.hi % 128) * (2 ^ 21)]

\* result | (group << shift), the bits of the group being clear in result
WideOrShl(result, group, shift) ==
    IF shift < 28
    THEN [result EXCEPT !.lo = @ + Shl(group, shift)]
    ELSE [result EXCEPT !.hi = @ + Shl(group, shift - 28)]

RECURSIVE encode_varint_wide(_)
\* MessageSigner._encode_varint(value)
encode_varint_wide(w) ==
    IF WideAbove7f(w)
    THEN <<(w.lo % 128) + 128>> \o encode_varint_wide(WideShr7(w))
    ELSE <<w.lo % 128>>

RECURSIVE ReadVarintWideLoop(_, _, _, _)
\* the while loop of _read_varint
ReadVarintWideLoop(data, pos, result, shift) ==
    IF pos >= Len(data)
    THEN [ok |-> FALSE, value |-> [hi |-> 0, lo |-> 0], pos |-> pos]
    ELSE LET byte == data[pos + 1]
             r == WideOrShl(result, byte % 128, shift)
         IN  IF byte < 128
             THEN [ok |-> TRUE, value |-> r, pos |-> pos + 1]
             ELSE ReadVarintWideLoop(data, pos + 1, r, shift + 7)

\* _read_varint(data, offset)
read_varint_wide(data, offset) ==
    ReadVarintWideLoop(data, offset, [hi |-> 0, lo |-> 0], 0)

\* struct.pack('>H', n), n < 65536
Pack_H(n) == <<n \div 256, n % 256>>


\* struct.pack('<I', n)
Pack_LI(n) ==
    <<n % 256, (n \div 256) % 256, (n \div 65536) % 256, (n \div 16777216) % 256>>

\* mutation of build_body_controller_state_request: the header counts itself
build_body_controller_state_request_CountsHeader(routing_address, uuid_bytes) ==
    LET payload == <<50, 2, 8, 2>> \o (<<58, 18, 18, 16>> \o routing_address)
                   \o (<<154, 3, 16>> \o uuid_bytes) \o <<160, 3, 2>> \o <<82, 2, 10, 0>>
    IN  Pack_H(Len(payload) + 2) \o payload

\* _build_body_controller_state_request, with the two draws of
\* _generate_random_bytes(16) as parameters
build_body_controller_state_request(routing_address, uuid_bytes) ==
    LET field6 == <<50, 2, 8, 2>>
        field7 == <<58, 18, 18, 16>> \o routing_address
        field19 == <<154, 3, 16>> \o uuid_bytes
        field20 == <<160, 3, 2>>
        field10 == <<82, 2, 10, 0>>
        payload == field6 \o field7 \o field19 \o field20 \o field10
    IN  Pack_H(Len(payload)) \o payload

\* create_handshake_message(public_key_bytes, routing_address)
create_handshake_message(public_key_bytes, routing_address) ==
    LET field6 == <<50, 2, 8, 2>>
        field7 == <<58, 18, 18, 16>> \o routing_address
        field14 == <<114, 67, 10, 65>> \o public_key_bytes
        field19 == <<154, 3, 16, 174, 13>>
        field23 == <<184, 134, 28>>
        field10 == <<87, 104, 64, 160, 167, 111, 34, 195, 143, 36, 248>>
        payload == field6 \o field7 \o field14 \o field19 \o field23 \o field10
    IN  Pack_H(Len(payload)) \o payload

\* hmac_sha256(key, message): a 32-byte digest; the model keeps its length and
\* makes its bytes depend on the message
hmac_sha256(message) ==
    [k \in 1..32 |-> (Len(message) * 31 + k * 17) % 256]

\* the VIN and the epoch the signer was constructed with
SignerVin == Fill(17, 65)
SignerEpoch == [k \in 1..16 |-> (k * 11) % 256]

\* MessageSigner.create_signature_data(expires_at) with self.counter = counter
create_signature_data(counter, expires_at) ==
    LET field1 == <<10, Len(SignerEpoch)>> \o SignerEpoch
        field2 == <<16>> \o encode_varint(counter)
        field3 == <<29>> \o Pack_LI(expires_at)
        field4 == <<>>
    IN  field1 \o field2 \o field3 \o field4

\* MessageSigner.sign_message(command_bytes, domain) after increment_counter
\* returned counter and get_adjusted_time() returned adjusted_time
sign_message(command_bytes, domain, counter, adjusted_time) ==
    LET expires_at == adjusted_time + 30
        metadata == <<1>> \o encode_varint(domain) \o SignerVin \o command_bytes
                    \o SignerEpoch \o encode_varint(counter) \o Pack_LI(expires_at)
        full_tag == hmac_sha256(metadata)
        tag == IF domain = 2 THEN Slice(full_tag, 0, 16) ELSE full_tag
        hmac_data == (<<10, Len(SignerEpoch)>> \o SignerEpoch)
                     \o (<<16>> \o encode_varint(counter))
                     \o (<<29>> \o Pack_LI(expires_at))
                     \o (<<34, Len(tag)>> \o tag)
        signature_data == <<106, Len(hmac_data)>> \o hmac_data
        to_dest == <<50, 2, 8, domain>>
        field10 == <<82>> \o encode_length_delimited(command_bytes)
        routable_message == to_dest \o field10 \o signature_data
    IN  Pack_H(Len(routable_message)) \o routable_message

(***************************************************************************)
(* Inputs of the codec operations.                                         *)
(***************************************************************************)
SeqsUpTo(S, n) == UNION {[1..k -> S] : k \in 0..n}

\* buffers handed to _read_varint: up to MaxCont continuation bytes with zero
\* payload, with and without a terminating byte, and short buffers with
\* non-zero groups
VarintInputs ==
    {Fill(k, 128) \o t : k \in 0..MaxCont, t \in {<<>>, <<0>>}}
    \cup {Fill(k, 129) \o t : k \in 0..3, t \in {<<>>, <<1>>, <<127>>, <<5, 128>>}}

\* well-formed fields: one- and two-byte tags, one- and two-byte varints,
\* empty and non-empty length-delimited content
FieldDescs ==
    {[fn |-> n, wt |-> 0, num |-> v, bytes |-> <<>>] : n \in {1, 2, 16}, v \in {0, 1, 300}}
    \cup {[fn |-> n, wt |-> 2, num |-> 0, bytes |-> b] : n \in {1, 2, 16}, b \in {<<>>, <<8, 1>>}}

\* what may follow the well-formed fields, with the entries the parser
\* decodes from it: nothing; a tag that ends inside its varint; a tag without
\* value; a value that ends inside its varint; a length-delimited tag without
\* length; wire types 5, 3 and 1 (followed by a well-formed field); a
\* length-delimited field whose content is cut short
Tails ==
    { [bytes |-> <<>>, decoded |-> <<>>, bad |-> FALSE],
      [bytes |-> <<128>>, decoded |-> <<>>, bad |-> TRUE],
      [bytes |-> <<8>>, decoded |-> <<>>, bad |-> TRUE],
      [bytes |-> <<8, 128>>, decoded |-> <<>>, bad |-> TRUE],
      [bytes |-> <<10>>, decoded |-> <<>>, bad |-> TRUE],
      [bytes |-> <<13, 1, 2, 3, 4, 16, 1>>, decoded |-> <<>>, bad |-> TRUE],
      [bytes |-> <<11, 16, 1>>, decoded |-> <<>>, bad |-> TRUE],
      [bytes |-> <<9, 16, 1>>, decoded |-> <<>>, bad |-> TRUE],
      [bytes |-> <<10, 5, 1>>, bad |-> FALSE,
       decoded |-> <<[fn |-> 1, wt |-> 2, num |-> 0, bytes |-> <<1>>]>>] }

\* the wire form of a well-formed field
EncodeField(d) ==
    encode_varint(d.fn * 8 + d.wt)
    \o (IF d.wt = 0 THEN encode_varint(d.num)
        ELSE encode_varint(Len(d.bytes)) \o d.bytes)

RECURSIVE EncodeFields(_)
EncodeFields(ds) ==
    IF ds = <<>> THEN <<>> ELSE EncodeField(Head(ds)) \o EncodeFields(Tail(ds))

\* draws of _generate_random_bytes(16)
Random16 == {[k \in 1..16 |-> (a * k + b) % 256] : a \in {0, 7, 37}, b \in {0, 10, 128, 255}}

PublicKeys == {Fill(n, 4) : n \in {0, 64, 65, 66}}
RoutingAddresses == {Fill(16, 0), Fill(16, 255), Fill(0, 0), [k \in 1..16 |-> k]}
Commands == {Fill(n, 8) : n \in {0, 1, 127, 128, 200}}
AdjustedTimes == {1700000000}
InitialCounters == {126}

(***************************************************************************)
(* parse_body_controller_state.  The result is [status, state]: status is  *)
(* "ok" or the exception raised, state the VehicleState returned.          *)
(***************************************************************************)
CLOSURE_STATE_NAMES ==
    <<"UNKNOWN", "OPEN", "CLOSED", "AJAR", "FAILED_UNLATCH", "OPENING", "CLOSING">>
LOCK_STATE_NAMES == <<"UNLOCKED", "LOCKED", "INTERNAL_LOCKED", "SELECTIVE_UNLOCKED">>
SLEEP_STATUS_NAMES == <<"UNKNOWN", "AWAKE", "ASLEEP">>
USER_PRESENCE_NAMES == <<"UNKNOWN", "NOT_PRESENT", "PRESENT">>

\* table.get(v, "UNKNOWN") for an integer v; the tables' keys are 0..Len-1
NameOf(table, v) ==
    IF v \in 0..(Len(table) - 1) THEN table[v + 1] ELSE "UNKNOWN"

\* table.get(value, "UNKNOWN") for the value of a parsed field: a bytes value
\* is not a key of the table
TableGet(table, e) ==
    IF e.wt = 0 THEN NameOf(table, e.num) ELSE "UNKNOWN"

\* the field number of each closure in the closure sub-message
ClosureNumber(f) ==
    CASE f = "front_driver_door" -> 1
      [] f = "front_passenger_door" -> 2
      [] f = "rear_driver_door" -> 3
      [] f = "rear_passenger_door" -> 4
      [] f = "rear_trunk" -> 5
      [] f = "front_trunk" -> 6
      [] f = "charge_port" -> 7
      [] f = "tonneau" -> 8

\* mutation of ClosureValue: no CLOSED default
ClosureValue_NoDefault(closure_fields, f) ==
    IF Has(closure_fields, ClosureNumber(f))
    THEN TableGet(CLOSURE_STATE_NAMES, Get(closure_fields, ClosureNumber(f)))
    ELSE None

\* a closure attribute in the direct shape: the CLOSED default, overwritten
\* when the closure sub-message has the field
ClosureValue(closure_fields, f) ==
    IF Has(closure_fields, ClosureNumber(f))
    THEN TableGet(CLOSURE_STATE_NAMES, Get(closure_fields, ClosureNumber(f)))
    ELSE "CLOSED"

\* mutation of DirectLock: field 7 is read like field 2
DirectLock_NotInverted(vsf) ==
    IF Has(vsf, 2)
    THEN IF Get(vsf, 2).wt = 0 THEN TableGet(LOCK_STATE_NAMES, Get(vsf, 2)) ELSE None
    ELSE IF Has(vsf, 7)
    THEN IF Get(vsf, 7).wt = 0 THEN TableGet(LOCK_STATE_NAMES, Get(vsf, 7)) ELSE None
    ELSE None

\* lock_state in the direct shape
DirectLock(vsf) ==
    IF Has(vsf, 2)
    THEN IF Get(vsf, 2).wt = 0 THEN TableGet(LOCK_STATE_NAMES, Get(vsf, 2)) ELSE None
    ELSE IF Has(vsf, 7)
    THEN IF Get(vsf, 7).wt = 0
         THEN (IF Get(vsf, 7).num = 0 THEN "LOCKED"
               ELSE IF Get(vsf, 7).num = 1 THEN "UNLOCKED"
               ELSE "UNKNOWN")
         ELSE None
    ELSE None

\* `if n in fields: if wire_type == 0: attr = table.get(value, "UNKNOWN")`
VarintName(vsf, n, table) ==
    IF Has(vsf, n) /\ Get(vsf, n).wt = 0 THEN TableGet(table, Get(vsf, n)) ELSE None

\* mutation of NestedLock: a length-delimited field 2 is ignored
NestedLock_VarintOnly(vsf) ==
    VarintName(vsf, 2, LOCK_STATE_NAMES)

\* lock_state in the nested shape
NestedLock(vsf) ==
    IF ~Has(vsf, 2) THEN None
    ELSE IF Get(vsf, 2).wt = 0 THEN TableGet(LOCK_STATE_NAMES, Get(vsf, 2))
    ELSE LET nested_fields == parse_message_fields(Get(vsf, 2).bytes)
         IN  VarintName(nested_fields, 3, LOCK_STATE_NAMES)

\* user_presence in the nested shape
NestedPresence(vsf) ==
    IF ~Has(vsf, 4) THEN None
    ELSE IF Get(vsf, 4).wt = 0 THEN TableGet(USER_PRESENCE_NAMES, Get(vsf, 4))
    ELSE IF Len(Get(vsf, 4).bytes) = 1
         THEN NameOf(USER_PRESENCE_NAMES, Get(vsf, 4).bytes[1])
         ELSE None

ParseRaises(e) == [status |-> e, state |-> EmptyState]

\* the branch `if use_field_1_format:`; _parse_message_fields on a closure
\* field that is a varint raises TypeError at len(data)
DirectState(vsf) ==
    IF Has(vsf, 1) /\ Get(vsf, 1).wt = 0
    THEN ParseRaises("TypeError")
    ELSE LET closure_fields ==
                 IF Has(vsf, 1) THEN parse_message_fields(Get(vsf, 1).bytes) ELSE <<>>
         IN  [status |-> "ok",
              state |-> [f \in Fields |->
                  IF f \in ClosureFields THEN ClosureValue(closure_fields, f)
                  ELSE IF f = "lock_state" THEN DirectLock(vsf)
                  ELSE IF f = "sleep_status" THEN VarintName(vsf, 3, SLEEP_STATUS_NAMES)
                  ELSE VarintName(vsf, 4, USER_PRESENCE_NAMES)]]

\* the else branch: the blob shape
NestedState(vsf) ==
    [status |-> "ok",
     state |-> [f \in Fields |->
         IF f \in ClosureFields THEN None
         ELSE IF f = "lock_state" THEN NestedLock(vsf)
         ELSE IF f = "sleep_status" THEN VarintName(vsf, 3, SLEEP_STATUS_NAMES)
         ELSE NestedPresence(vsf)]]

\* from the vehicle-status entry on; a varint entry makes
\* _parse_message_fields raise TypeError at len(data)
ParseVehicleStatus(e, use_field_1_format) ==
    IF e.wt = 0
    THEN ParseRaises("TypeError")
    ELSE IF use_field_1_format
         THEN DirectState(parse_message_fields(e.bytes))
         ELSE NestedState(parse_message_fields(e.bytes))

\* mutation of SelectShape: field 3 is looked for first
SelectShape_NestedFirst(from_vcsec_fields) ==
    IF Has(from_vcsec_fields, 3)
    THEN ParseVehicleStatus(Get(from_vcsec_fields, 3), FALSE)
    ELSE IF Has(from_vcsec_fields, 1)
    THEN ParseVehicleStatus(Get(from_vcsec_fields, 1), TRUE)
    ELSE ParseRaises("ValueError")

\* `if 1 in from_vcsec_fields: ... elif 3 in from_vcsec_fields: ... else: raise`
SelectShape(from_vcsec_fields) ==
    IF Has(from_vcsec_fields, 1)
    THEN ParseVehicleStatus(Get(from_vcsec_fields, 1), TRUE)
    ELSE IF Has(from_vcsec_fields, 3)
    THEN ParseVehicleStatus(Get(from_vcsec_fields, 3), FALSE)
    ELSE ParseRaises("ValueError")

\* parse_body_controller_state(response_bytes), response_bytes a bytes object
parse_body_controller_state(response_bytes) ==
    IF Len(response_bytes) = 0
    THEN ParseRaises("ValueError")
    ELSE LET routable_fields == parse_message_fields(response_bytes)
         IN  IF ~Has(routable_fields, 10)
             THEN ParseRaises("ValueError")
             ELSE IF Get(routable_fields, 10).wt = 0
             THEN ParseRaises("TypeError")
             ELSE SelectShape(parse_message_fields(Get(routable_fields, 10).bytes))

(***************************************************************************)
(* Responses handed to parse_body_controller_state, described by their     *)
(* structure and encoded to bytes.                                         *)
(***************************************************************************)
V(n, v) == [fn |-> n, wt |-> 0, num |-> v, bytes |-> <<>>]
L(n, b) == [fn |-> n, wt |-> 2, num |-> 0, bytes |-> b]

\* closure sub-messages: empty, single doors and trunks, a duplicate, a value
\* outside the table, a length-delimited value, all eight closures
ClosureMsgs ==
    { <<>>, <<V(1, 1)>>, <<V(1, 2)>>, <<V(5, 1)>>, <<V(6, 1)>>,
      <<V(1, 1), V(1, 2)>>, <<V(8, 9)>>, <<L(2, <<1>>)>>,
      <<V(3, 1), V(4, 0), V(7, 6)>>,
      [k \in 1..8 |-> V(k, 3)] }

\* field 1 of the vehicle status: absent, a closure sub-message, a varint
ClosureOpts ==
    { [kind |-> "absent", descs |-> <<>>], [kind |-> "varint", descs |-> <<>>] }
    \cup { [kind |-> "msg", descs |-> m] : m \in ClosureMsgs }

DirectLockOpts ==
    { <<>>, <<V(2, 1), V(2, 0)>>, <<V(2, 0), V(7, 0)>>, <<V(7, 1), V(2, 1)>>,
      <<L(2, <<8, 1>>), V(7, 0)>>, <<L(7, <<0>>)>> }
    \cup { <<V(2, v)>> : v \in {0, 1, 2, 3, 9} }
    \cup { <<V(7, v)>> : v \in {0, 1, 5} }

SleepOpts == { <<>>, <<V(3, 2)>>, <<L(3, <<1>>)>> }

DirectStatuses ==
    { [closure |-> c, rest |-> l \o sl \o pr] :
        c \in ClosureOpts, l \in DirectLockOpts, sl \in SleepOpts,
        pr \in { <<>>, <<V(4, 2)>> } }

\* field 2 of the nested shape: absent, a varint, a nested message
NestedField2Opts ==
    { [kind |-> "absent", num |-> 0, descs |-> <<>>] }
    \cup { [kind |-> "varint", num |-> v, descs |-> <<>>] : v \in {0, 1, 9} }
    \cup { [kind |-> "msg", num |-> 0, descs |-> m] :
             m \in { <<>>, <<V(3, 1)>>, <<V(3, 7)>>, <<L(3, <<1>>)>>,
                     <<L(1, <<8, 1>>), V(3, 0)>> } }

NestedField4Opts ==
    { <<>>, <<V(4, 2)>>, <<V(4, 7)>>, <<L(4, <<1>>)>>, <<L(4, <<9>>)>>,
      <<L(4, <<1, 2>>)>>, <<L(4, <<>>)>> }

\* pre: a field 1 holding closure-like data may precede the other fields
NestedStatuses ==
    { [pre |-> p, f2 |-> f, rest |-> sl \o pr] :
        p \in { <<>>, <<L(1, <<8, 1>>)>> }, f \in NestedField2Opts,
        sl \in { <<>>, <<V(3, 1)>> }, pr \in NestedField4Opts }

DirectStatusDescs(d) ==
    (IF d.closure.kind = "absent" THEN <<>>
     ELSE IF d.closure.kind = "varint" THEN <<V(1, 1)>>
     ELSE <<L(1, EncodeFields(d.closure.descs))>>) \o d.rest

NestedStatusDescs(n) ==
    n.pre
    \o (IF n.f2.kind = "absent" THEN <<>>
        ELSE IF n.f2.kind = "varint" THEN <<V(2, n.f2.num)>>
        ELSE <<L(2, EncodeFields(n.f2.descs))>>)
    \o n.rest

SomeDirect == [closure |-> [kind |-> "msg", descs |-> <<V(1, 1)>>], rest |-> <<V(2, 1)>>]
SomeNested == [pre |-> <<>>, f2 |-> [kind |-> "varint", num |-> 0, descs |-> <<>>],
               rest |-> <<V(4, 2)>>]

\* how the vehicle status sits in the response
Wraps ==
    { "f1", "f3", "both13", "both31", "neither", "empty10", "no10",
      "f1varint", "f3varint", "f10varint", "emptybytes" }

Responses ==
    { [wrap |-> "f1", direct |-> d, nested |-> SomeNested] : d \in DirectStatuses }
    \cup { [wrap |-> "f3", direct |-> SomeDirect, nested |-> n] : n \in NestedStatuses }
    \cup { [wrap |-> w, direct |-> SomeDirect, nested |-> SomeNested] :
             w \in Wraps \ {"f1", "f3"} }

\* the fields of the inner message
InnerDescs(r) ==
    LET d == L(1, EncodeFields(DirectStatusDescs(r.direct)))
        n == L(3, EncodeFields(NestedStatusDescs(r.nested)))
    IN  CASE r.wrap = "f1" -> <<d>>
          [] r.wrap = "f3" -> <<n>>
          [] r.wrap = "both13" -> <<d, n>>
          [] r.wrap = "both31" -> <<n, d>>
          [] r.wrap = "neither" -> <<L(2, EncodeFields(DirectStatusDescs(r.direct)))>>
          [] r.wrap = "f1varint" -> <<V(1, 1)>>
          [] r.wrap = "f3varint" -> <<V(3, 1)>>
          [] OTHER -> <<>>

\* the bytes of the response
ResponseBytes(r) ==
    CASE r.wrap = "emptybytes" -> <<>>
      [] r.wrap = "no10" -> EncodeFields(<<L(6, <<8, 2>>)>>)
      [] r.wrap = "f10varint" -> EncodeFields(<<L(6, <<8, 2>>), V(10, 1)>>)
      [] OTHER -> EncodeFields(<<L(6, <<8, 2>>), L(10, EncodeFields(InnerDescs(r)))>>)

\* integers around every change of encoded length up to 2^35 - 1, and 2^35
WideInputs ==
    { [hi |-> h, lo |-> l] :
        h \in {0, 1, 7, 8, 127, 128},
        l \in {0, 1, 127, 128, 300, 16383, 16384, 2097151, 2097152, 268435455} }

\* accumulators a response is merged into
Accumulators ==
    { EmptyState, DirectSnapshot({"front_driver_door"}, "UNLOCKED", "AWAKE", "PRESENT") }

(***************************************************************************)
(* Specification SpecCodec: one codec operation applied to one input; the  *)
(* signer may sign up to MaxSigns messages in a row, its counter passing   *)
(* from one-byte to two-byte varints.                                      *)
(***************************************************************************)
CodecKeep == UNCHANGED <<mergeVars, clientVars, recvVars, sendVars, connVars, taskVars, monVars, scanVars, queueVars>>

DoReadVarint(data, offset) ==
    /\ k_op = "none"
    /\ k_op' = "read_varint"
    /\ k_in' = [data |-> data, offset |-> offset]
    /\ k_out' = read_varint(data, offset)
    /\ UNCHANGED <<p_acc, p_prev_acc, sg_counter, sg_calls>>
    /\ CodecKeep

DoParseFields(descs, tail) ==
    /\ k_op = "none"
    /\ k_op' = "parse_fields"
    /\ k_in' = [descs |-> descs, tail |-> tail]
    /\ k_out' = parse_message_fields(EncodeFields(descs) \o tail.bytes)
    /\ UNCHANGED <<p_acc, p_prev_acc, sg_counter, sg_calls>>
    /\ CodecKeep

DoBuildRequest(routing_address, uuid_bytes) ==
    /\ k_op = "none"
    /\ k_op' = "build_request"
    /\ k_in' = [routing |-> routing_address, uuid |-> uuid_bytes]
    /\ k_out' = build_body_controller_state_request(routing_address, uuid_bytes)
    /\ UNCHANGED <<p_acc, p_prev_acc, sg_counter, sg_calls>>
    /\ CodecKeep

DoHandshake(public_key_bytes, routing_address) ==
    /\ k_op = "none"
    /\ k_op' = "handshake"
    /\ k_in' = [key |-> public_key_bytes, routing |-> routing_address]
    /\ k_out' = create_handshake_message(public_key_bytes, routing_address)
    /\ UNCHANGED <<p_acc, p_prev_acc, sg_counter, sg_calls>>
    /\ CodecKeep

\* operations of one MessageSigner may follow one another
SignerOps == {"none", "sign", "signature_data", "adjusted_time"}

\* create_signature_data(expires_at)
DoCreateSignatureData(expires_at) ==
    /\ k_op \in SignerOps
    /\ k_op' = "signature_data"
    /\ k_in' = [expires_at |-> expires_at]
    /\ k_out' = create_signature_data(sg_counter, expires_at)
    /\ UNCHANGED <<p_acc, p_prev_acc, sg_counter, sg_calls>>
    /\ CodecKeep

\* get_adjusted_time(): utime.time() - self.clock_delta
DoGetAdjustedTime(time, clock_delta) ==
    /\ k_op \in SignerOps
    /\ k_op' = "adjusted_time"
    /\ k_in' = [time |-> time, clock_delta |-> clock_delta]
    /\ k_out' = time - clock_delta
    /\ UNCHANGED <<p_acc, p_prev_acc, sg_counter, sg_calls>>
    /\ CodecKeep

\* mutation of DoSign: the frame carries the counter before the increment
DoSign_StaleCounter(command_bytes, domain, adjusted_time) ==
    /\ k_op \in SignerOps
    /\ sg_calls < MaxSigns
    /\ sg_calls' = sg_calls + 1
    /\ sg_counter' = sg_counter + 1
    /\ k_op' = "sign"
    /\ k_in' = [command |-> command_bytes, domain |-> domain, time |-> adjusted_time]
    /\ k_out' = sign_message(command_bytes, domain, sg_counter, adjusted_time)
    /\ UNCHANGED <<p_acc, p_prev_acc>>
    /\ CodecKeep

\* sign_message: increment_counter, then the frame
DoSign(command_bytes, domain, adjusted_time) ==
    /\ k_op \in SignerOps
    /\ sg_calls < MaxSigns
    /\ sg_calls' = sg_calls + 1
    /\ sg_counter' = sg_counter + 1
    /\ k_op' = "sign"
    /\ k_in' = [command |-> command_bytes, domain |-> domain, time |-> adjusted_time]
    /\ k_out' = sign_message(command_bytes, domain, sg_counter + 1, adjusted_time)
    /\ UNCHANGED <<p_acc, p_prev_acc>>
    /\ CodecKeep

\* the payload of the built request (the bytes after the 2-byte header) is
\* handed to _parse_message_fields
DoParseRequest ==
    /\ k_op = "build_request"
    /\ k_op' = "parse_request"
    /\ k_out' = [frame |-> k_out,
                 flds |-> parse_message_fields(Slice(k_out, 2, Len(k_out)))]
    /\ UNCHANGED <<k_in, p_acc, p_prev_acc, sg_counter, sg_calls>>
    /\ CodecKeep

\* the response is parsed and, when that raised nothing, merged into the
\* accumulator (send_body_controller_state_request after _receive_message)
DoParseResponse(r) ==
    /\ k_op = "none"
    /\ k_op' = "parse_response"
    /\ k_in' = r
    /\ k_out' = parse_body_controller_state(ResponseBytes(r))
    /\ p_prev_acc' = p_acc
    /\ p_acc' = IF k_out'.status = "ok"
                THEN update_from_response(p_acc, k_out'.state).self
                ELSE p_acc
    /\ UNCHANGED <<sg_counter, sg_calls>>
    /\ CodecKeep

\* an integer is encoded and the bytes are decoded at offset 0
DoVarintRoundTrip(w) ==
    /\ k_op = "none"
    /\ k_op' = "varint_round_trip"
    /\ k_in' = w
    /\ k_out' = [bytes |-> encode_varint_wide(w),
                 decoded |-> read_varint_wide(encode_varint_wide(w), 0)]
    /\ UNCHANGED <<p_acc, p_prev_acc, sg_counter, sg_calls>>
    /\ CodecKeep

InitCodec ==
    /\ MergeParked /\ ClientParked /\ RecvParked /\ SendParked
    /\ ConnParked /\ TaskParked /\ ExtParked
    /\ k_op = "none"
    /\ k_in = <<>>
    /\ k_out = <<>>
    /\ p_acc = EmptyState
    /\ p_prev_acc = EmptyState
    /\ sg_counter \in InitialCounters
    /\ sg_calls = 0

NextCodec ==
    \/ \E data \in VarintInputs, offset \in 0..1 : DoReadVarint(data, offset)
    \/ \E descs \in SeqsUpTo(FieldDescs, MaxFields), tail \in Tails : DoParseFields(descs, tail)
    \/ \E r \in Random16, u \in Random16 : DoBuildRequest(r, u)
    \/ DoParseRequest
    \/ \E w \in WideInputs : DoVarintRoundTrip(w)
    \/ \E pk \in PublicKeys, r \in RoutingAddresses : DoHandshake(pk, r)
    \/ \E c \in Commands, d \in {2, 3}, t \in AdjustedTimes : DoSign(c, d, t)
    \/ \E t \in AdjustedTimes : DoCreateSignatureData(t + 30)
    \/ \E t \in AdjustedTimes, delta \in {0, 5} : DoGetAdjustedTime(t + delta, delta)

SpecCodec == InitCodec /\ [][NextCodec]_vars

(***************************************************************************)
(* Specification SpecParse: one response is parsed and merged into an      *)
(* accumulator that is empty or holds values of an earlier response.       *)
(***************************************************************************)
InitParse ==
    /\ MergeParked /\ ClientParked /\ RecvParked /\ SendParked
    /\ ConnParked /\ TaskParked /\ ExtParked
    /\ k_op = "none"
    /\ k_in = <<>>
    /\ k_out = <<>>
    /\ p_acc \in Accumulators
    /\ p_prev_acc = p_acc
    /\ sg_counter = 0
    /\ sg_calls = 0

NextParse == \E r \in Responses : DoParseResponse(r)

SpecParse == InitParse /\ [][NextParse]_vars


\* C12: every frame of the three builders starts with a 2-byte big-endian
\* header equal to the number of bytes after it; the status request is 52
\* bytes, header 50, with the fixed layout around the two 16-byte draws.
C12_FrameHeader ==
    /\ k_op \in {"build_request", "handshake", "sign"} =>
          /\ Len(k_out) >= 2
          /\ k_out[1] * 256 + k_out[2] = Len(k_out) - 2
    /\ k_op = "build_request" =>
          /\ Len(k_out) = 52
          /\ SubSeq(k_out, 1, 2) = <<0, 50>>
          /\ SubSeq(k_out, 3, 6) = <<50, 2, 8, 2>>
          /\ SubSeq(k_out, 7, 10) = <<58, 18, 18, 16>>
          /\ SubSeq(k_out, 11, 26) = k_in.routing
          /\ SubSeq(k_out, 27, 29) = <<154, 3, 16>>
          /\ SubSeq(k_out, 30, 45) = k_in.uuid
          /\ SubSeq(k_out, 46, 48) = <<160, 3, 2>>
          /\ SubSeq(k_out, 49, 52) = <<82, 2, 10, 0>>

\* a status request was built from two different draws
C12_Witness ==
    /\ k_op = "build_request"
    /\ k_in.routing # k_in.uuid
    /\ Len(k_out) = 52

\* C13: the payload of the built request decodes into exactly five fields, in
\* the order of the payload: length-delimited 2 bytes, length-delimited 18
\* bytes, length-delimited 16 bytes, varint 2, length-delimited 2 bytes; the
\* five fields re-encode to the whole payload, so every byte was consumed
\* and no field failed to decode.
C13_RequestDecodes ==
    k_op = "parse_request" =>
        LET f == k_out.flds
        IN  /\ Len(f) = 5
            /\ f[1] = [fn |-> 6, wt |-> 2, num |-> 0, bytes |-> <<8, 2>>]
            /\ f[2] = [fn |-> 7, wt |-> 2, num |-> 0, bytes |-> <<18, 16>> \o k_in.routing]
            /\ Len(f[2].bytes) = 18
            /\ f[3].wt = 2 /\ f[3].bytes = k_in.uuid /\ Len(f[3].bytes) = 16
            /\ f[4].wt = 0 /\ f[4].num = 2
            /\ f[5] = [fn |-> 10, wt |-> 2, num |-> 0, bytes |-> <<10, 0>>]
            /\ EncodeFields(f) = SubSeq(k_out.frame, 3, Len(k_out.frame))

\* a request whose random bytes hold continuation-bit and tag-like values
\* was parsed
C13_Witness ==
    /\ k_op = "parse_request"
    /\ k_in.routing = Fill(16, 128)
    /\ k_in.uuid = Fill(16, 10)
    /\ Len(k_out.flds) = 5


\* the fields a best-effort parse has to return for the input of
\* DoParseFields: the well-formed fields, then what the tail still decodes to
ExpectedEntries(input) == input.descs \o input.tail.decoded

\* e is the last entry of es with its field number
IsLastOf(e, es) ==
    \E i \in 1..Len(es) :
        /\ es[i] = e
        /\ \A j \in (i + 1)..Len(es) : es[j].fn # e.fn

\* C19: _parse_message_fields returns, for well-formed fields followed by a
\* field that cannot be decoded, exactly the fields before that point: one
\* entry per field number that occurs, and it is the last occurrence.
C19_BestEffort ==
    k_op = "parse_fields" =>
        LET es == ExpectedEntries(k_in)
        IN  /\ \A i \in 1..Len(k_out) : IsLastOf(k_out[i], es)
            /\ \A i \in 1..Len(es) : Has(k_out, es[i].fn)
            /\ \A i, j \in 1..Len(k_out) : k_out[i].fn = k_out[j].fn => i = j

\* two different fields with the same number were followed by an undecodable
\* field: one entry comes back, the second field
C19_Witness ==
    /\ k_op = "parse_fields"
    /\ k_in.tail.bad
    /\ Len(k_in.descs) = 2
    /\ k_in.descs[1].fn = k_in.descs[2].fn
    /\ k_in.descs[1] # k_in.descs[2]
    /\ k_out = <<k_in.descs[2]>>

\* the buffer holds a terminating byte (high bit clear) at or after offset
HasTerminator(data, offset) ==
    \E i \in (offset + 1)..Len(data) : data[i] < 128

\* 0-based position just after the first terminating byte
AfterTerminator(data, offset) ==
    CHOOSE i \in (offset + 1)..Len(data) :
        /\ data[i] < 128
        /\ \A j \in (offset + 1)..(i - 1) : data[j] >= 128

RECURSIVE GroupValue(_, _, _)
\* the value of the 7-bit groups data[from+1 .. to], least significant first
GroupValue(data, from, to) ==
    IF from >= to THEN 0
    ELSE (data[from + 1] % 128) + (IF GroupValue(data, from + 1, to) = 0 THEN 0
                                   ELSE 128 * GroupValue(data, from + 1, to))

\* C20 as stated: _read_varint fails when more than 10 continuation groups
\* are consumed, and when the buffer ends before a terminating byte.
C20_GroupLimit ==
    k_op = "read_varint" =>
        /\ (~HasTerminator(k_in.data, k_in.offset) => ~k_out.ok)
        /\ (k_out.pos - k_in.offset > 11 => ~k_out.ok)

\* C20 amended: _read_varint fails exactly when the buffer ends before a
\* terminating byte; any number of continuation groups followed by a
\* terminating byte decodes, to the value of the groups, and the new offset is
\* just after the terminating byte.
C20_FailsOnlyIncomplete ==
    k_op = "read_varint" =>
        /\ k_out.ok <=> HasTerminator(k_in.data, k_in.offset)
        /\ k_out.ok =>
              /\ k_out.pos = AfterTerminator(k_in.data, k_in.offset)
              /\ k_out.value = GroupValue(k_in.data, k_in.offset, k_out.pos)

\* eleven continuation groups and a terminating byte were decoded
C20_Witness ==
    /\ k_op = "read_varint"
    /\ k_in.offset = 0
    /\ Len(k_in.data) = 12
    /\ k_out.ok
    /\ k_out.pos = 12


\* field number n occurs among the fields ds
Occurs(ds, n) == \E i \in 1..Len(ds) : ds[i].fn = n

\* the last field of ds with number n
LastWith(ds, n) ==
    ds[CHOOSE i \in 1..Len(ds) :
          ds[i].fn = n /\ \A j \in (i + 1)..Len(ds) : ds[j].fn # n]

\* the closure value a direct-shape response described by d has to give
ExpClosure(d, f) ==
    IF d.closure.kind # "msg" \/ ~Occurs(d.closure.descs, ClosureNumber(f))
    THEN "CLOSED"
    ELSE LET e == LastWith(d.closure.descs, ClosureNumber(f))
         IN  IF e.wt = 0 /\ e.num = 1 THEN "OPEN"
             ELSE IF e.wt = 0 /\ e.num = 2 THEN "CLOSED"
             ELSE TableGet(CLOSURE_STATE_NAMES, e)

LockName(v) ==
    CASE v = 0 -> "UNLOCKED"
      [] v = 1 -> "LOCKED"
      [] v = 2 -> "INTERNAL_LOCKED"
      [] v = 3 -> "SELECTIVE_UNLOCKED"
      [] OTHER -> "UNKNOWN"

\* the lock state the status-level fields `rest` of a direct response give
ExpDirectLock(rest) ==
    IF Occurs(rest, 2)
    THEN IF LastWith(rest, 2).wt = 0 THEN LockName(LastWith(rest, 2).num) ELSE None
    ELSE IF Occurs(rest, 7) /\ LastWith(rest, 7).wt = 0
    THEN CASE LastWith(rest, 7).num = 0 -> "LOCKED"
           [] LastWith(rest, 7).num = 1 -> "UNLOCKED"
           [] OTHER -> "UNKNOWN"
    ELSE None

\* the lock state field 2 of a nested response gives
ExpNestedLock(f2) ==
    IF f2.kind = "varint" THEN LockName(f2.num)
    ELSE IF f2.kind = "msg" /\ Occurs(f2.descs, 3) /\ LastWith(f2.descs, 3).wt = 0
    THEN LockName(LastWith(f2.descs, 3).num)
    ELSE None

\* the user presence field 4 of a nested response gives
ExpNestedPresence(rest) ==
    IF ~Occurs(rest, 4) THEN None
    ELSE LET e == LastWith(rest, 4)
         IN  IF e.wt = 0 THEN NameOf(USER_PRESENCE_NAMES, e.num)
             ELSE IF Len(e.bytes) = 1 THEN NameOf(USER_PRESENCE_NAMES, e.bytes[1])
             ELSE None

\* C14: parse_body_controller_state raises ValueError (nothing is merged) when
\* the outer message has no field 10 and when the inner message has neither
\* field 1 nor field 3; with both field 1 and field 3 the result is the one of
\* the direct shape read from field 1, in either order of the two fields.
C14_StructuralFailures ==
    k_op = "parse_response" =>
        /\ k_in.wrap \in {"no10", "neither", "empty10"} =>
              /\ k_out.status = "ValueError"
              /\ p_acc = p_prev_acc
        /\ k_in.wrap \in {"both13", "both31"} =>
              /\ k_out.status = "ok"
              /\ \A f \in ClosureFields : k_out.state[f] = ExpClosure(k_in.direct, f)
              /\ k_out.state["lock_state"] = ExpDirectLock(k_in.direct.rest)
              /\ k_out.state["user_presence"] = None

\* field 3 came before field 1 and the direct shape of field 1 was returned
C14_Witness ==
    /\ k_op = "parse_response"
    /\ k_in.wrap = "both31"
    /\ k_out.status = "ok"
    /\ k_out.state["front_driver_door"] = "OPEN"
    /\ k_out.state["lock_state"] = "LOCKED"

\* C15 as stated: whenever field 10 is present as a message and the inner
\* message has a field 1 or a field 3, of whatever wire type and content, a
\* snapshot is returned and nothing is raised.
C15_NeverFails ==
    (/\ k_op = "parse_response"
     /\ k_in.wrap \in {"f1", "f3", "both13", "both31", "f1varint", "f3varint"})
        => k_out.status = "ok"

\* C16: in the direct shape every closure attribute is CLOSED when its field
\* is absent from the closure sub-message or there is no sub-message, else the
\* table name of the value present (1 is OPEN, 2 is CLOSED); none is unset.
C16_DirectClosures ==
    (/\ k_op = "parse_response"
     /\ k_in.wrap = "f1"
     /\ k_in.direct.closure.kind # "varint")
        => /\ k_out.status = "ok"
           /\ \A f \in ClosureFields :
                 /\ k_out.state[f] = ExpClosure(k_in.direct, f)
                 /\ k_out.state[f] # None

\* only the rear trunk was reported, open
C16_Witness ==
    /\ k_op = "parse_response"
    /\ k_in.wrap = "f1"
    /\ k_in.direct.closure = [kind |-> "msg", descs |-> <<V(5, 1)>>]
    /\ k_out.state["rear_trunk"] = "OPEN"
    /\ k_out.state["front_trunk"] = "CLOSED"

\* C17: in the direct shape the lock state is the table name of varint field
\* 2; field 7 is read only when there is no field 2, with 0 LOCKED and 1
\* UNLOCKED; otherwise the lock state is unset.
C17_DirectLock ==
    (/\ k_op = "parse_response"
     /\ k_in.wrap = "f1"
     /\ k_in.direct.closure.kind # "varint")
        => k_out.state["lock_state"] = ExpDirectLock(k_in.direct.rest)

\* field 7 = 0 without a field 2 gave LOCKED
C17_Witness ==
    /\ k_op = "parse_response"
    /\ k_in.wrap = "f1"
    /\ ~Occurs(k_in.direct.rest, 2)
    /\ Occurs(k_in.direct.rest, 7)
    /\ LastWith(k_in.direct.rest, 7) = V(7, 0)
    /\ k_out.state["lock_state"] = "LOCKED"

\* C18: in the nested shape the closures are unset, the lock state comes from
\* varint field 2 or from varint field 3 of a length-delimited field 2, the
\* user presence from field 4 as a varint or as one byte; the merge of such a
\* response leaves every closure of the accumulator as it was.
C18_NestedShape ==
    (k_op = "parse_response" /\ k_in.wrap = "f3")
        => /\ k_out.status = "ok"
           /\ \A f \in ClosureFields : k_out.state[f] = None
           /\ k_out.state["lock_state"] = ExpNestedLock(k_in.nested.f2)
           /\ k_out.state["user_presence"] = ExpNestedPresence(k_in.nested.rest)
           /\ \A f \in ClosureFields : p_acc[f] = p_prev_acc[f]

\* a nested response with closure-like data, a lock state in the nested
\* message and a one-byte presence was merged into an accumulator with an
\* open door
C18_Witness ==
    /\ k_op = "parse_response"
    /\ k_in.wrap = "f3"
    /\ k_in.nested.pre # <<>>
    /\ k_in.nested.f2.kind = "msg"
    /\ k_out.state["lock_state"] = "LOCKED"
    /\ k_out.state["user_presence"] = "NOT_PRESENT"
    /\ p_prev_acc["front_driver_door"] = "OPEN"
    /\ p_acc["front_driver_door"] = "OPEN"
    /\ p_acc["lock_state"] = "LOCKED"


\* the number of bytes the varint of w has: one per started 7-bit group
VarintLength(w) ==
    IF w.hi >= 128 THEN 6
    ELSE IF w.hi > 0 THEN 5
    ELSE IF w.lo >= 2097152 THEN 4
    ELSE IF w.lo >= 16384 THEN 3
    ELSE IF w.lo >= 128 THEN 2
    ELSE 1

\* C21: for n in [0, 2^35) the bytes of _encode_varint(n), decoded by
\* _read_varint at offset 0, give n back and the new offset is the number of
\* encoded bytes; every byte but the last has the continuation bit.
C21_VarintRoundTrip ==
    k_op = "varint_round_trip" =>
        /\ k_out.decoded.ok
        /\ k_out.decoded.value = k_in
        /\ k_out.decoded.pos = Len(k_out.bytes)
        /\ Len(k_out.bytes) = VarintLength(k_in)
        /\ \A i \in 1..Len(k_out.bytes) :
              (k_out.bytes[i] >= 128) <=> (i < Len(k_out.bytes))

\* 2^35 - 1 went through five bytes and came back
C21_Witness ==
    /\ k_op = "varint_round_trip"
    /\ k_in = [hi |-> 127, lo |-> 268435455]
    /\ k_out.bytes = <<255, 255, 255, 255, 127>>
    /\ k_out.decoded.value = k_in


(***************************************************************************)
(* The derived queries of VehicleState.  A Python bool is "True" or        *)
(* "False", so that it can stand next to None.                             *)
(***************************************************************************)
Bool(b) == IF b THEN "True" ELSE "False"

\* the list `doors` of all_doors_closed and any_doors_open
doors(self) ==
    << self["front_driver_door"], self["front_passenger_door"],
       self["rear_driver_door"], self["rear_passenger_door"] >>

\* mutation of all_doors_closed: unset doors are skipped
all_doors_closed_SkipNone(self) ==
    Bool(\A k \in 1..4 : doors(self)[k] \in {None, "CLOSED"})

\* VehicleState.all_doors_closed
all_doors_closed(self) ==
    IF \E k \in 1..4 : doors(self)[k] = None
    THEN None
    ELSE Bool(\A k \in 1..4 : doors(self)[k] = "CLOSED")

\* mutation of any_doors_open: unset doors are skipped
any_doors_open_SkipNone(self) ==
    Bool(\E k \in 1..4 : doors(self)[k] = "OPEN")

\* VehicleState.any_doors_open()
any_doors_open(self) ==
    IF \E k \in 1..4 : doors(self)[k] = None
    THEN None
    ELSE Bool(\E k \in 1..4 : doors(self)[k] = "OPEN")

\* mutation of is_locked: only LOCKED counts
is_locked_OnlyLocked(self) ==
    IF self["lock_state"] = None
    THEN None
    ELSE Bool(self["lock_state"] = "LOCKED")

\* VehicleState.is_locked
is_locked(self) ==
    IF self["lock_state"] = None
    THEN None
    ELSE Bool(self["lock_state"] \in {"LOCKED", "INTERNAL_LOCKED"})

\* VehicleState objects the queries are asked of: every combination of door
\* values and every lock state, the other attributes unset
DoorValues == {None, "CLOSED", "OPEN", "AJAR"}
LockValues ==
    {None, "UNLOCKED", "LOCKED", "INTERNAL_LOCKED", "SELECTIVE_UNLOCKED", "UNKNOWN"}

QueryStates ==
    { [f \in Fields |->
          IF f = "front_driver_door" THEN d[1]
          ELSE IF f = "front_passenger_door" THEN d[2]
          ELSE IF f = "rear_driver_door" THEN d[3]
          ELSE IF f = "rear_passenger_door" THEN d[4]
          ELSE IF f = "lock_state" THEN l
          ELSE None] :
        d \in [1..4 -> DoorValues], l \in LockValues }

(***************************************************************************)
(* Specification SpecQuery: one query asked of one VehicleState.           *)
(***************************************************************************)
DoAllDoorsClosed(st) ==
    /\ k_op = "none"
    /\ k_op' = "all_doors_closed"
    /\ k_in' = st
    /\ k_out' = all_doors_closed(st)
    /\ UNCHANGED <<p_acc, p_prev_acc, sg_counter, sg_calls>>
    /\ CodecKeep

DoAnyDoorsOpen(st) ==
    /\ k_op = "none"
    /\ k_op' = "any_doors_open"
    /\ k_in' = st
    /\ k_out' = any_doors_open(st)
    /\ UNCHANGED <<p_acc, p_prev_acc, sg_counter, sg_calls>>
    /\ CodecKeep

DoIsLocked(st) ==
    /\ k_op = "none"
    /\ k_op' = "is_locked"
    /\ k_in' = st
    /\ k_out' = is_locked(st)
    /\ UNCHANGED <<p_acc, p_prev_acc, sg_counter, sg_calls>>
    /\ CodecKeep

\* both door queries asked of one accumulator, as a caller that reads
\* any_doors_open() as "not all closed" does
DoDoorSummary(st) ==
    /\ k_op = "none"
    /\ k_op' = "door_summary"
    /\ k_in' = st
    /\ k_out' = [any_open |-> any_doors_open(st), all_closed |-> all_doors_closed(st)]
    /\ UNCHANGED <<p_acc, p_prev_acc, sg_counter, sg_calls>>
    /\ CodecKeep

InitQuery ==
    /\ MergeParked /\ ClientParked /\ RecvParked /\ SendParked /\ CodecParked
    /\ ConnParked /\ TaskParked /\ ExtParked

NextQuery ==
    \/ \E st \in QueryStates : DoAllDoorsClosed(st)
    \/ \E st \in QueryStates : DoAnyDoorsOpen(st)
    \/ \E st \in QueryStates : DoIsLocked(st)
    \/ \E st \in QueryStates : DoDoorSummary(st)

SpecQuery == InitQuery /\ [][NextQuery]_vars

DoorFields ==
    { "front_driver_door", "front_passenger_door", "rear_driver_door",
      "rear_passenger_door" }

\* C22: all_doors_closed is None when one of the four doors is unset, else
\* True when all four are CLOSED, else False.
C22_AllDoorsClosed ==
    k_op = "all_doors_closed" =>
        k_out = (IF \E f \in DoorFields : k_in[f] = None THEN None
                 ELSE IF \A f \in DoorFields : k_in[f] = "CLOSED" THEN "True"
                 ELSE "False")

\* exactly one door is unset, the other three are CLOSED: the answer is None
C22_Witness ==
    /\ k_op = "all_doors_closed"
    /\ k_in["rear_driver_door"] = None
    /\ \A f \in DoorFields \ {"rear_driver_door"} : k_in[f] = "CLOSED"
    /\ k_out = None

\* C23: any_doors_open() is None when one of the four doors is unset, else
\* True when at least one is OPEN, else False.
C23_AnyDoorsOpen ==
    k_op = "any_doors_open" =>
        k_out = (IF \E f \in DoorFields : k_in[f] = None THEN None
                 ELSE IF \E f \in DoorFields : k_in[f] = "OPEN" THEN "True"
                 ELSE "False")

\* one door is open and another is unset: the answer is None, not True
C23_Witness ==
    /\ k_op = "any_doors_open"
    /\ k_in["front_driver_door"] = "OPEN"
    /\ k_in["rear_passenger_door"] = None
    /\ k_out = None

\* C24: is_locked is None for an unset lock state, True for LOCKED and
\* INTERNAL_LOCKED, False for every other value.
C24_IsLocked ==
    k_op = "is_locked" =>
        k_out = (CASE k_in["lock_state"] = None -> None
                   [] k_in["lock_state"] = "LOCKED" -> "True"
                   [] k_in["lock_state"] = "INTERNAL_LOCKED" -> "True"
                   [] OTHER -> "False")

\* INTERNAL_LOCKED counts as locked
C24_Witness ==
    /\ k_op = "is_locked"
    /\ k_in["lock_state"] = "INTERNAL_LOCKED"
    /\ k_out = "True"


(***************************************************************************)
(* response_validator.validate_response.  The result dict is a record; the *)
(* routing address None is NoBytes; errors lists the kinds of the messages *)
(* appended, in order.                                                     *)
(***************************************************************************)
EXPECTED_PREFIX == <<50, 18, 18, 16>>
EXPECTED_SUFFIX == <<58, 2, 8, 2, 82, 12, 10, 10, 10, 2, 64, 3, 16, 1, 24, 2, 32, 1>>
MIN_RESPONSE_LENGTH == 35
MAX_RESPONSE_LENGTH == 100

\* an argument that is not bytes or bytearray (a VehicleState object)
NotBytes == <<-2>>

\* mutation of LengthErrors: the upper bound is not checked
LengthErrors_NoMax(response_len) ==
    IF response_len < MIN_RESPONSE_LENGTH THEN <<"too short">> ELSE <<>>

\* the length check: the error appended, if any
LengthErrors(response_len) ==
    IF response_len < MIN_RESPONSE_LENGTH THEN <<"too short">>
    ELSE IF response_len > MAX_RESPONSE_LENGTH THEN <<"too long">>
    ELSE <<>>

\* the prefix check
PrefixErrors(response_bytes) ==
    IF Len(response_bytes) >= Len(EXPECTED_PREFIX)
    THEN IF Slice(response_bytes, 0, Len(EXPECTED_PREFIX)) = EXPECTED_PREFIX
         THEN <<>> ELSE <<"prefix mismatch">>
    ELSE <<"too short for prefix">>

\* response_bytes[-len(EXPECTED_SUFFIX):], for a response at least that long
LastBytes(response_bytes, n) ==
    SubSeq(response_bytes, Len(response_bytes) - n + 1, Len(response_bytes))

\* the suffix check
SuffixErrors(response_bytes) ==
    IF Len(response_bytes) >= Len(EXPECTED_SUFFIX)
    THEN IF LastBytes(response_bytes, Len(EXPECTED_SUFFIX)) = EXPECTED_SUFFIX
         THEN <<>> ELSE <<"suffix mismatch">>
    ELSE <<"too short for suffix">>

\* validate_response(response_bytes)
validate_response(response_bytes) ==
    IF response_bytes = NotBytes
    THEN [valid |-> FALSE, prefix_match |-> FALSE, suffix_match |-> FALSE,
          length_valid |-> FALSE, routing_address |-> NoBytes,
          errors |-> <<"not bytes">>]
    ELSE LET response_len == Len(response_bytes)
             errors == LengthErrors(response_len) \o PrefixErrors(response_bytes)
                       \o SuffixErrors(response_bytes)
         IN  [valid |-> errors = <<>>,
              prefix_match |-> PrefixErrors(response_bytes) = <<>>,
              suffix_match |-> SuffixErrors(response_bytes) = <<>>,
              length_valid |-> LengthErrors(response_len) = <<>>,
              routing_address |->
                  IF response_len >= Len(EXPECTED_PREFIX) + 16
                  THEN Slice(response_bytes, Len(EXPECTED_PREFIX), Len(EXPECTED_PREFIX) + 16)
                  ELSE NoBytes,
              errors |-> errors]

\* responses of every length up to MaxRespLen: the first four bytes are the
\* expected prefix or differ from it in the first or the last byte, the last
\* eighteen the expected suffix or differ in the first or the last byte
PrefixVariants ==
    { EXPECTED_PREFIX, [EXPECTED_PREFIX EXCEPT ![1] = 51], [EXPECTED_PREFIX EXCEPT ![4] = 17] }
SuffixVariants ==
    { EXPECTED_SUFFIX, [EXPECTED_SUFFIX EXCEPT ![1] = 59], [EXPECTED_SUFFIX EXCEPT ![18] = 0] }

ResponseOf(n, pre, suf) ==
    [k \in 1..n |->
        IF k <= 4 THEN pre[k]
        ELSE IF n >= 18 /\ k > n - 18 THEN suf[k - (n - 18)]
        ELSE (k * 7) % 256]

ValidatedResponses ==
    { ResponseOf(n, pre, suf) : n \in 0..MaxRespLen, pre \in PrefixVariants,
                                suf \in SuffixVariants }

(***************************************************************************)
(* Specification SpecValidate: validate_response on one byte string.       *)
(***************************************************************************)
DoValidate(response_bytes) ==
    /\ k_op = "none"
    /\ k_op' = "validate"
    /\ k_in' = response_bytes
    /\ k_out' = validate_response(response_bytes)
    /\ UNCHANGED <<p_acc, p_prev_acc, sg_counter, sg_calls>>
    /\ CodecKeep

InitValidate ==
    /\ MergeParked /\ ClientParked /\ RecvParked /\ SendParked /\ CodecParked
    /\ ConnParked /\ TaskParked /\ ExtParked

NextValidate == \E r \in ValidatedResponses : DoValidate(r)

SpecValidate == InitValidate /\ [][NextValidate]_vars

\* C25: on bytes, valid is TRUE exactly when the length is in 35..100, the
\* first 4 bytes are 32 12 12 10 and the last 18 bytes are the expected suffix;
\* errors is empty exactly when valid; with at least 20 bytes the routing
\* address is bytes 4..19.
C25_Validate ==
    k_op = "validate" =>
        /\ k_out.valid <=>
              /\ Len(k_in) >= 35 /\ Len(k_in) <= 100
              /\ SubSeq(k_in, 1, 4) = <<50, 18, 18, 16>>
              /\ SubSeq(k_in, Len(k_in) - 17, Len(k_in)) =
                   <<58, 2, 8, 2, 82, 12, 10, 10, 10, 2, 64, 3, 16, 1, 24, 2, 32, 1>>
        /\ (k_out.errors = <<>>) <=> k_out.valid
        /\ Len(k_in) >= 20 => k_out.routing_address = SubSeq(k_in, 5, 20)

\* a 100-byte response with the expected prefix and suffix is valid
C25_Witness ==
    /\ k_op = "validate"
    /\ Len(k_in) = 100
    /\ k_out.valid
    /\ k_out.errors = <<>>
    /\ k_out.routing_address = SubSeq(k_in, 5, 20)


(***************************************************************************)
(* Specification SpecGet: get_vehicle_state on top of the client's         *)
(* exchange.  k_op is the position of get_vehicle_state ("none" when it is *)
(* not running), k_out what it returned or raised.                         *)
(***************************************************************************)
\* what send_body_controller_state_request returns: self._vehicle_state, a
\* VehicleState object, not bytes
ExchangeResult == NotBytes

\* steps 2 to 4 of get_vehicle_state on the value the exchange returned
GetOutcome(response_bytes) ==
    IF ~validate_response(response_bytes).valid
    THEN [pc |-> "get_raised", out |-> "ValueError"]
    ELSE IF response_bytes = NotBytes
              \/ parse_body_controller_state(response_bytes).status # "ok"
    THEN [pc |-> "get_raised", out |-> "ValueError"]
    ELSE [pc |-> "get_returned", out |-> "VehicleState"]

\* get_vehicle_state is called: the connection check, then the exchange is
\* awaited
GetEnter ==
    /\ k_op \in {"none", "get_returned", "get_raised"}
    /\ cpc = "idle"
    /\ calls < MaxExchanges
    /\ IF is_connected
       THEN k_op' = "get_vehicle_state" /\ k_out' = "none"
       ELSE k_op' = "get_raised" /\ k_out' = "ConnectionError"
    /\ k_in' = is_connected
    /\ UNCHANGED <<p_acc, p_prev_acc, sg_counter, sg_calls>>
    /\ CodecKeep

\* the exchange returned: its result is validated and parsed
GetValidate ==
    /\ k_op = "get_vehicle_state"
    /\ cpc = "returned"
    /\ k_op' = GetOutcome(ExchangeResult).pc
    /\ k_out' = GetOutcome(ExchangeResult).out
    /\ UNCHANGED <<k_in, p_acc, p_prev_acc, sg_counter, sg_calls>>
    /\ CodecKeep

\* the exchange raised: the exception leaves get_vehicle_state
GetPropagate ==
    /\ k_op = "get_vehicle_state"
    /\ cpc = "raised"
    /\ k_op' = "get_raised"
    /\ k_out' = cerr
    /\ UNCHANGED <<k_in, p_acc, p_prev_acc, sg_counter, sg_calls>>
    /\ CodecKeep

InitGet == Init

NextGet ==
    \/ (k_op # "get_vehicle_state" /\ ConnectOk)
    \/ (k_op # "get_vehicle_state" /\ ConnectError)
    \/ (k_op # "get_vehicle_state" /\ \E stage \in 1..5 : ConnectTimeout(stage))
    \/ (k_op # "get_vehicle_state" /\ Disconnect)
    \/ GetEnter
    \/ (k_op = "get_vehicle_state" /\ ReqEnter)
    \/ SendOk
    \/ SendFail
    \/ RecvOk
    \/ RecvTimeout
    \/ ParseFail
    \/ \E s \in ParsedSnapshots : ParseAndMerge(s)
    \/ GetValidate
    \/ GetPropagate
    \/ (k_op # "get_vehicle_state" /\ Finish)

SpecGet == InitGet /\ [][NextGet]_vars

\* C26 as stated: when the exchange under get_vehicle_state has succeeded (the
\* response was received, parsed and merged), get_vehicle_state returns a
\* VehicleState; ValueError leaves it only when the response failed to parse.
C26_ReturnsOnSuccess ==
    (k_op \in {"get_returned", "get_raised"} /\ cpc = "returned")
        => (k_op = "get_returned" /\ k_out = "VehicleState")


(***************************************************************************)
(* C27: the accumulator of a connection.                                   *)
(***************************************************************************)
\* C27: every connect() that returns True leaves a new accumulator whose
\* eleven fields are all unset, with the connection, both characteristics
\* and the subscription in place; a connect() that does not get past the
\* subscription (or a disconnect()) leaves the accumulator as it was.
C27_FreshAccumulator ==
    [][/\ acc_id' # acc_id =>
            /\ vehicle_state' = <<EmptyState>>
            /\ Cardinality(DOMAIN vehicle_state'[1]) = 11
            /\ \A f \in Fields : vehicle_state'[1][f] = None
            /\ connection' /\ write_char' /\ read_char'
       /\ (cpc = "idle" /\ cpc' = "idle" /\ acc_id' = acc_id) =>
            vehicle_state' = vehicle_state]_vars

\* the second connection started from an empty accumulator although the
\* first one had merged a snapshot with values
C27_Witness ==
    /\ acc_id = 2
    /\ cpc = "idle"
    /\ connection /\ write_char /\ read_char
    /\ vehicle_state = <<EmptyState>>
    /\ calls >= 1
    /\ c_new_state # EmptyState


(***************************************************************************)
(* C30: the completion heuristic of _receive_message.                      *)
(***************************************************************************)
\* the byte 0x52 occurs among the first 50 bytes of bs
MarkerInFirst50(bs) ==
    \E k \in 1..Len(bs) : k <= 50 /\ bs[k] = 82

\* C30: the step that accepts a notification ends the call with the frame if
\* and only if the bytes accumulated so far are at least 30 with 0x52 among
\* the first 50 of them, or are at least 100; a call that has ended takes no
\* further notification.
C30_CompletionHeuristic ==
    /\ [][(Len(delivered') = Len(delivered) + 1
             /\ IsAccepted(delivered'[Len(delivered')])) =>
            (LET acc == ExpectedPayload(delivered')
                 stop == (Len(acc) >= 30 /\ MarkerInFirst50(acc)) \/ Len(acc) >= 100
             IN  /\ (rpc' = "done") <=> stop
                 /\ rpc' # "done" => (rpc' = "loop" /\ frame' = frame)
                 /\ rpc' = "done" => (frame' = <<50>> \o acc))]_vars
    /\ [][(rpc \in {"done", "raised"}) => (delivered' = delivered)]_vars

\* the call ended on the 100-byte rule: no 0x52 anywhere, and before the last
\* notification it held 30 bytes or more and went on
C30_Witness ==
    /\ rpc = "done"
    /\ TotalReceived(packets) >= 100
    /\ ~Contains(Join(packets), 82)
    /\ Len(packets) >= 2
    /\ TotalReceived(SubSeq(packets, 1, Len(packets) - 1)) >= 30


(***************************************************************************)
(* Specification SpecDisc: disconnect(), one action per suspension point.  *)
(* The transport calls subscribe(notify=False), connection.disconnect()    *)
(* and sleep_ms(100) return or raise an Exception.                         *)
(***************************************************************************)
\* (connection, write_char, read_char) as connect() can leave them: nothing,
\* stopped after device.connect(), after characteristic(write_uuid), complete,
\* and a reconnect whose second device.connect() failed after
\* `self._connection = None` while the old characteristics were still set
DiscStarts ==
    { <<FALSE, FALSE, FALSE>>, <<TRUE, FALSE, FALSE>>, <<TRUE, TRUE, FALSE>>,
      <<TRUE, TRUE, TRUE>>, <<FALSE, TRUE, TRUE>> }

\* the device cache: empty, or filled by _cache_device
CacheStarts == { <<None, NoTime>>, <<"AA:BB:CC:DD:EE:FF", 5>> }

\* the accumulator: none yet, a fresh one, one that holds values
AccumulatorStarts ==
    { <<>>, <<EmptyState>>, <<DirectSnapshot({}, "LOCKED", "ASLEEP", "NOT_PRESENT")>> }

\* disconnect() is called
DiscEnter ==
    /\ dpc \in {"idle", "done"}
    /\ dpc' = "unsub"
    /\ d_log' = <<>>
    /\ UNCHANGED <<cached_mac, cache_timestamp>>
    /\ UNCHANGED <<mergeVars, clientVars, recvVars, sendVars, codecVars, taskVars, monVars, scanVars, queueVars>>

\* `if self._read_char is not None:` await subscribe(notify=False); an
\* Exception is caught and logged
DiscUnsubscribe(ok) ==
    /\ dpc = "unsub"
    /\ dpc' = "close"
    /\ IF read_char
       THEN d_log' = Append(d_log, IF ok THEN "unsubscribe" ELSE "unsubscribe_failed")
       ELSE ok /\ UNCHANGED d_log
    /\ UNCHANGED <<cached_mac, cache_timestamp>>
    /\ UNCHANGED <<mergeVars, clientVars, recvVars, sendVars, codecVars, taskVars, monVars, scanVars, queueVars>>

\* mutation of DiscClose: a failure of connection.disconnect() leaves
\* disconnect() through the `finally` block
DiscClose_Propagate(ok) ==
    /\ dpc = "close"
    /\ IF connection
       THEN /\ d_log' = Append(d_log, IF ok THEN "close" ELSE "close_failed")
            /\ dpc' = IF ok THEN "sleep" ELSE "raised"
            /\ connection' = (ok /\ connection)
            /\ write_char' = (ok /\ write_char)
            /\ read_char' = (ok /\ read_char)
       ELSE /\ ok
            /\ dpc' = "sleep"
            /\ UNCHANGED <<d_log, connection, write_char, read_char>>
    /\ UNCHANGED <<vehicle_state, cpc, cerr, calls, c_new_state, acc_id, h_atCall, h_lastSet>>
    /\ UNCHANGED <<cached_mac, cache_timestamp>>
    /\ UNCHANGED <<mergeVars, recvVars, sendVars, codecVars, taskVars, monVars, scanVars, queueVars>>

\* `if self._connection is not None:` await connection.disconnect(); an
\* Exception is caught and logged
DiscClose(ok) ==
    /\ dpc = "close"
    /\ IF connection
       THEN /\ d_log' = Append(d_log, IF ok THEN "close" ELSE "close_failed")
            /\ dpc' = "sleep"
            /\ UNCHANGED <<connection, write_char, read_char>>
       ELSE /\ ok
            /\ dpc' = "sleep"
            /\ UNCHANGED <<d_log, connection, write_char, read_char>>
    /\ UNCHANGED <<vehicle_state, cpc, cerr, calls, c_new_state, acc_id, h_atCall, h_lastSet>>
    /\ UNCHANGED <<cached_mac, cache_timestamp>>
    /\ UNCHANGED <<mergeVars, recvVars, sendVars, codecVars, taskVars, monVars, scanVars, queueVars>>

\* await asyncio.sleep_ms(100) returns, or raises an Exception that the
\* outer handler logs; then the `finally` block clears the connection state
DiscSleep(ok) ==
    /\ dpc = "sleep"
    /\ dpc' = "done"
    /\ d_log' = Append(d_log, IF ok THEN "sleep" ELSE "sleep_failed")
    /\ connection' = FALSE
    /\ write_char' = FALSE
    /\ read_char' = FALSE
    /\ UNCHANGED <<vehicle_state, cpc, cerr, calls, c_new_state, acc_id, h_atCall, h_lastSet>>
    /\ UNCHANGED <<cached_mac, cache_timestamp>>
    /\ UNCHANGED <<mergeVars, recvVars, sendVars, codecVars, taskVars, monVars, scanVars, queueVars>>

InitDisc ==
    /\ MergeParked /\ RecvParked /\ SendParked /\ CodecParked /\ TaskParked /\ ExtParked
    /\ \E c \in DiscStarts :
          connection = c[1] /\ write_char = c[2] /\ read_char = c[3]
    /\ vehicle_state \in AccumulatorStarts
    /\ cpc = "idle" /\ cerr = "none" /\ calls = 0 /\ c_new_state = EmptyState
    /\ acc_id = 0 /\ h_atCall = <<>> /\ h_lastSet = EmptyState
    /\ \E c \in CacheStarts : cached_mac = c[1] /\ cache_timestamp = c[2]
    /\ dpc = "idle"
    /\ d_log = <<>>

NextDisc ==
    \/ DiscEnter
    \/ \E ok \in BOOLEAN : DiscUnsubscribe(ok)
    \/ \E ok \in BOOLEAN : DiscClose(ok)
    \/ \E ok \in BOOLEAN : DiscSleep(ok)

SpecDisc == InitDisc /\ [][NextDisc]_vars

UnsubscribeCalls == {"unsubscribe", "unsubscribe_failed"}
CloseCalls == {"close", "close_failed"}

\* C28: disconnect() never raises, whichever of its transport calls fail;
\* it unsubscribes (when there is a read characteristic) before it closes
\* the connection (when there is one); when it has returned the connection
\* and both characteristics are cleared and is_connected() is false; the
\* cached MAC address, the cache timestamp and the accumulator never change.
C28_DisconnectSafe ==
    /\ [](dpc # "raised")
    /\ [](\A i, j \in DOMAIN d_log :
            (d_log[i] \in UnsubscribeCalls /\ d_log[j] \in CloseCalls) => i < j)
    /\ [][(dpc = "unsub" /\ dpc' # dpc /\ read_char) =>
            (Len(d_log') = 1 /\ d_log'[1] \in UnsubscribeCalls)]_vars
    /\ [][(dpc = "close" /\ dpc' # dpc /\ connection) =>
            (d_log'[Len(d_log')] \in CloseCalls)]_vars
    /\ [](dpc = "done" =>
            (~connection /\ ~write_char /\ ~read_char /\ ~is_connected))
    /\ [][(cached_mac' = cached_mac) /\ (cache_timestamp' = cache_timestamp)
            /\ (vehicle_state' = vehicle_state)]_vars

\* disconnect() returned after both the unsubscription and the close failed,
\* on a client with a cached device and an accumulator that holds values
C28_Witness ==
    /\ dpc = "done"
    /\ Len(d_log) = 3
    /\ d_log[1] = "unsubscribe_failed"
    /\ d_log[2] = "close_failed"
    /\ cached_mac # None
    /\ cache_timestamp # NoTime
    /\ vehicle_state # <<>>
    /\ vehicle_state[1] # EmptyState


(***************************************************************************)
(* Specification SpecConc: two tasks call                                  *)
(* send_body_controller_state_request on one connected client.  A task     *)
(* runs until its next await; the other task may run while it is           *)
(* suspended.  x_wire records, in order, every chunk handed to             *)
(* self._write_char.write and the end of every exchange.                   *)
(***************************************************************************)
\* chunk_size=20, the default of _send_fragmented
DefaultChunkSize == 20

\* len(request) of the frame _build_body_controller_state_request returns
RequestLen == Len(build_body_controller_state_request(Fill(16, 1), Fill(16, 2)))

\* positions of a task between the call and its result
InFlight == {"write", "sleep", "recv"}

WireChunk(t, i) == [task |-> t, kind |-> "chunk", i |-> i]
WireEnd(t, how) == [task |-> t, kind |-> how, i |-> 0]

\* the call: connection check, request built, _send_fragmented entered, the
\* first chunk handed to write(chunk, response=True); the task awaits it
TaskEnter(t) ==
    /\ x_pc[t] = "idle"
    /\ IF is_connected
       THEN /\ x_pc' = [x_pc EXCEPT ![t] = "write"]
            /\ x_i' = [x_i EXCEPT ![t] = 0]
            /\ x_wire' = Append(x_wire, WireChunk(t, 0))
       ELSE /\ x_pc' = [x_pc EXCEPT ![t] = "raised"]
            /\ UNCHANGED <<x_i, x_wire>>
    /\ UNCHANGED <<mergeVars, clientVars, recvVars, sendVars, codecVars, connVars, monVars, scanVars, queueVars>>

\* write() returns; the task awaits asyncio.sleep_ms(50)
TaskWriteAck(t) ==
    /\ x_pc[t] = "write"
    /\ x_pc' = [x_pc EXCEPT ![t] = "sleep"]
    /\ UNCHANGED <<x_i, x_wire>>
    /\ UNCHANGED <<mergeVars, clientVars, recvVars, sendVars, codecVars, connVars, monVars, scanVars, queueVars>>

\* write() raises: ConnectionError leaves the exchange
TaskWriteFail(t) ==
    /\ x_pc[t] = "write"
    /\ x_pc' = [x_pc EXCEPT ![t] = "raised"]
    /\ x_wire' = Append(x_wire, WireEnd(t, "failed"))
    /\ UNCHANGED x_i
    /\ UNCHANGED <<mergeVars, clientVars, recvVars, sendVars, codecVars, connVars, monVars, scanVars, queueVars>>

\* the sleep ends: next i of range(0, len(data), chunk_size) and its chunk
\* handed to write(), or the loop is over and _receive_message awaits a
\* notification
TaskSleepDone(t) ==
    /\ x_pc[t] = "sleep"
    /\ LET i == x_i[t] + DefaultChunkSize
       IN  IF i < RequestLen
           THEN /\ x_i' = [x_i EXCEPT ![t] = i]
                /\ x_pc' = [x_pc EXCEPT ![t] = "write"]
                /\ x_wire' = Append(x_wire, WireChunk(t, i))
           ELSE /\ x_pc' = [x_pc EXCEPT ![t] = "recv"]
                /\ UNCHANGED <<x_i, x_wire>>
    /\ UNCHANGED <<mergeVars, clientVars, recvVars, sendVars, codecVars, connVars, monVars, scanVars, queueVars>>

\* _receive_message returns the response; parse, merge, return
TaskReceived(t) ==
    /\ x_pc[t] = "recv"
    /\ x_pc' = [x_pc EXCEPT ![t] = "returned"]
    /\ x_wire' = Append(x_wire, WireEnd(t, "response"))
    /\ UNCHANGED x_i
    /\ UNCHANGED <<mergeVars, clientVars, recvVars, sendVars, codecVars, connVars, monVars, scanVars, queueVars>>

\* _receive_message raises TimeoutError
TaskTimedOut(t) ==
    /\ x_pc[t] = "recv"
    /\ x_pc' = [x_pc EXCEPT ![t] = "raised"]
    /\ x_wire' = Append(x_wire, WireEnd(t, "timeout"))
    /\ UNCHANGED x_i
    /\ UNCHANGED <<mergeVars, clientVars, recvVars, sendVars, codecVars, connVars, monVars, scanVars, queueVars>>

\* a connected client after connect() returned True
InitConc ==
    /\ MergeParked /\ RecvParked /\ SendParked /\ CodecParked /\ ConnParked /\ ExtParked
    /\ connection = TRUE /\ write_char = TRUE /\ read_char = TRUE
    /\ vehicle_state = <<EmptyState>>
    /\ cpc = "idle" /\ cerr = "none" /\ calls = 0 /\ c_new_state = EmptyState
    /\ acc_id = 1 /\ h_atCall = <<>> /\ h_lastSet = EmptyState
    /\ TaskInit

NextConc ==
    \E t \in Tasks :
        \/ TaskEnter(t)
        \/ TaskWriteAck(t)
        \/ TaskWriteFail(t)
        \/ TaskSleepDone(t)
        \/ TaskReceived(t)
        \/ TaskTimedOut(t)

SpecConc == InitConc /\ [][NextConc]_vars

\* C29: at most one exchange is in flight: never two tasks between call and
\* result at once; between two chunks of one request no chunk of another
\* request reaches the transport; and after a chunk of one request a chunk
\* of another request is written only once the first exchange has ended.
C29_OneExchangeInFlight ==
    /\ Cardinality({t \in Tasks : x_pc[t] \in InFlight}) <= 1
    /\ \A p, q \in DOMAIN x_wire :
          (/\ p < q
           /\ x_wire[p].kind = "chunk"
           /\ x_wire[q].kind = "chunk"
           /\ x_wire[p].task # x_wire[q].task) =>
              \E e \in DOMAIN x_wire :
                  /\ p < e /\ e < q
                  /\ x_wire[e].task = x_wire[p].task
                  /\ x_wire[e].kind \in {"response", "timeout", "failed"}


(***************************************************************************)
(* C40: the counter of the message signer.                                 *)
(***************************************************************************)
\* offset of the counter varint in a signed frame: length header, field 6,
\* field 10 with the command, the headers of field 13 and of the epoch, the
\* epoch, the tag 0x10
SignedCounterOffset(command_bytes) ==
    2 + 4 + 1 + Len(encode_length_delimited(command_bytes)) + 2 + 2 + Len(SignerEpoch) + 1

\* the counter a signed frame carries, read back with the decoder
SignedCounter(msg, command_bytes) ==
    IF msg[SignedCounterOffset(command_bytes)] # 16 THEN VarintFail(0)
    ELSE read_varint(msg, SignedCounterOffset(command_bytes))

\* C40: each sign_message adds exactly one to the counter and the frame it
\* returns carries the new value, so the k-th signed frame carries the
\* initial counter plus k; the counter changes in no other operation
\* (create_signature_data and get_adjusted_time leave it as it is).
C40_CounterNeverReused ==
    /\ [][sg_calls' # sg_calls =>
            /\ sg_calls' = sg_calls + 1
            /\ sg_counter' = sg_counter + 1
            /\ k_op' = "sign"
            /\ SignedCounter(k_out', k_in'.command).ok
            /\ SignedCounter(k_out', k_in'.command).value = sg_counter + 1
            /\ SignedCounter(k_out', k_in'.command).value > sg_counter]_vars
    /\ [](k_op = "sign" =>
            \E c0 \in InitialCounters :
                SignedCounter(k_out, k_in.command).value = c0 + sg_calls)
    /\ [][(k_op' \in {"signature_data", "adjusted_time"}) =>
            (sg_counter' = sg_counter /\ sg_calls' = sg_calls)]_vars
    /\ [][(sg_counter' # sg_counter) => (sg_calls' = sg_calls + 1)]_vars

\* the second signed frame carries the counter 128, a two-byte varint
C40_Witness ==
    /\ k_op = "sign"
    /\ sg_calls = 2
    /\ SignedCounter(k_out, k_in.command).ok
    /\ SignedCounter(k_out, k_in.command).value = 128
    /\ SignedCounter(k_out, k_in.command).pos = SignedCounterOffset(k_in.command) + 2


(***************************************************************************)
(* C37: any_doors_open() against all_doors_closed.                         *)
(***************************************************************************)
\* C37: on an accumulator whose four door fields are all set,
\* any_doors_open() is False if and only if all_doors_closed is True.
C37_OpenIffNotClosed ==
    (k_op = "door_summary" /\ \A f \in DoorFields : k_in[f] # None) =>
        ((k_out.any_open = "False") <=> (k_out.all_closed = "True"))


(***************************************************************************)
(* C36: the accumulator across a reconnect.                                *)
(***************************************************************************)
\* C36: a connect() that succeeds on a disconnected client which holds an
\* accumulator keeps every field value accumulated before the disconnect.
C36_KnowledgeKeptAcrossReconnect ==
    [][(acc_id' # acc_id /\ ~connection /\ vehicle_state # <<>>) =>
          /\ vehicle_state' # <<>>
          /\ \A f \in Fields :
                vehicle_state[1][f] # None =>
                    vehicle_state'[1][f] = vehicle_state[1][f]]_vars


(***************************************************************************)
(* C35: is_connected() and the accumulator.                                *)
(***************************************************************************)
\* C35: whenever is_connected() is true the accumulator exists, and no
\* exchange fails for lack of an accumulator.
C35_ConnectedHasAccumulator ==
    /\ is_connected => vehicle_state # <<>>
    /\ cerr # "AttributeError"


(***************************************************************************)
(* Specification SpecRecvLive: _receive_message under a stream of          *)
(* notifications that does not end.  Once `delivered` holds MaxNotifs      *)
(* entries, further None and error-packet notifications keep arriving      *)
(* without being recorded.  The clock advances (Tick), the coroutine is    *)
(* scheduled (LoopTop) and wait_for_ms raises at its deadline              *)
(* (WaitTimeout).                                                          *)
(***************************************************************************)
\* the wait returns None or the error packet: `continue`
NotifiedIgnored(data) ==
    /\ rpc = "wait"
    /\ now <= wait_deadline
    /\ Len(delivered) = MaxNotifs
    /\ data = NoBytes \/ IsErrorPacket(data)
    /\ rpc' = "loop"
    /\ UNCHANGED <<r_connected, packets, first_packet, start_time, now, wait_deadline,
                   rerr, frame, delivered>>
    /\ UNCHANGED <<mergeVars, clientVars, sendVars, codecVars, connVars, taskVars, monVars, scanVars, queueVars>>

NextRecvLive ==
    \/ RecvEnter
    \/ LoopTop
    \/ \E data \in Notifications : Notified(data)
    \/ \E data \in {NoBytes, ErrorPacket} : NotifiedIgnored(data)
    \/ WaitTimeout
    \/ NotifiedError
    \/ Tick

SpecRecvLive ==
    /\ InitRecv
    /\ [][NextRecvLive]_vars
    /\ WF_vars(LoopTop)
    /\ WF_vars(WaitTimeout)
    /\ WF_vars(Tick)

\* C32: a call that entered its loop ends, with a frame or an exception; a
\* loop iteration that starts at or after the timeout raises TimeoutError,
\* and no wait lasts beyond the timeout; short of an error of the transport
\* the call ends with a frame or with TimeoutError.
C32_ReceiveTerminates ==
    /\ (rpc \in {"loop", "wait"}) ~> (rpc \in {"done", "raised"})
    /\ [][(rpc = "loop" /\ now - start_time >= TimeoutTicks /\ rpc' # rpc) =>
            (rpc' = "raised" /\ rerr' = "TimeoutError")]_vars
    /\ [](rpc = "wait" => wait_deadline <= start_time + TimeoutTicks)
    /\ []((rpc = "raised" /\ r_connected /\ rerr # "DeviceError") =>
            rerr = "TimeoutError")
    /\ [](rpc = "done" => frame # NoBytes)

\* the call timed out after a stream of None and error-packet notifications
\* that filled the history
C32_Witness ==
    /\ rpc = "raised"
    /\ rerr = "TimeoutError"
    /\ Len(delivered) = MaxNotifs
    /\ \A k \in 1..Len(delivered) : delivered[k] \in {NoBytes, ErrorPacket}
    /\ \E k \in 1..Len(delivered) : delivered[k] = ErrorPacket


(***************************************************************************)
(* Specification SpecTrunc: parse_body_controller_state applied to the     *)
(* first n bytes of a well-formed direct-shape response, as                *)
(* _receive_message returns them when it stops before the last fragment.   *)
(***************************************************************************)
\* well-formed direct-shape responses: the closure sub-message holds varint
\* fields only; lock state, sleep status and user presence follow or not
TruncFrames ==
    { [wrap |-> "f1",
       direct |-> [closure |-> [kind |-> "msg", descs |-> m], rest |-> rest],
       nested |-> SomeNested] :
        m \in { <<>>, <<V(1, 1)>>, <<V(5, 1)>>, <<V(3, 1), V(4, 0), V(7, 6)>>,
                [k \in 1..8 |-> V(k, 3)] },
        rest \in { <<>>, <<V(2, 1)>>, <<V(2, 1), V(3, 2), V(4, 2)>> } }

\* the parser on response_bytes[:n] and on response_bytes
DoParsePrefix(r, n) ==
    /\ k_op = "none"
    /\ k_op' = "parse_prefix"
    /\ k_in' = [response |-> ResponseBytes(r), n |-> n]
    /\ k_out' = [prefix |-> parse_body_controller_state(Slice(ResponseBytes(r), 0, n)),
                 full |-> parse_body_controller_state(ResponseBytes(r))]
    /\ UNCHANGED <<p_acc, p_prev_acc, sg_counter, sg_calls>>
    /\ CodecKeep

InitTrunc ==
    /\ MergeParked /\ ClientParked /\ RecvParked /\ SendParked /\ CodecParked
    /\ ConnParked /\ TaskParked /\ ExtParked

NextTrunc ==
    \E r \in TruncFrames : \E n \in 0..Len(ResponseBytes(r)) : DoParsePrefix(r, n)

SpecTrunc == InitTrunc /\ [][NextTrunc]_vars

\* C39: when a prefix of a well-formed direct-shape response parses without
\* error, every field set in its snapshot has the value it has in the
\* snapshot of the complete response.
C39_TruncationSafe ==
    (k_op = "parse_prefix" /\ k_out.prefix.status = "ok" /\ k_out.full.status = "ok") =>
        \A f \in Fields :
            k_out.prefix.state[f] # None =>
                k_out.prefix.state[f] = k_out.full.state[f]


(***************************************************************************)
(* Specification SpecMonitor: monitor_loop of examples/monitor_state.py on *)
(* a connected client, one action per iteration.  previous_state and       *)
(* current_state are references: send_body_controller_state_request        *)
(* returns the client's accumulator object, which update_from_response     *)
(* changes in place.                                                       *)
(***************************************************************************)
\* the keys of state_to_dict
MonitoredFields ==
    { "front_driver_door", "front_passenger_door", "rear_driver_door",
      "rear_passenger_door", "front_trunk", "rear_trunk", "charge_port",
      "lock_state", "user_presence" }

\* state_to_dict(state)
state_to_dict(state) == [key \in MonitoredFields |-> state[key]]

\* the object a reference denotes: <<>> for None, else the accumulator as it
\* is now
Deref(ref, accumulator) == IF ref = None THEN <<>> ELSE <<accumulator>>

\* print_changes(old_state, new_state): the keys of the entries of `changes`;
\* old_dict is {} for None, and {}.get(key) is None
print_changes(old_state, new_state) ==
    { key \in MonitoredFields :
        (IF old_state = <<>> THEN None ELSE state_to_dict(old_state[1])[key])
            # state_to_dict(new_state)[key] }

\* one iteration whose exchange succeeds: the response is merged into the
\* accumulator, the accumulator is returned, compared with previous_state
\* and stored as previous_state
MonPoll(new_state) ==
    /\ calls < MaxExchanges
    /\ is_connected
    /\ vehicle_state # <<>>
    /\ LET updated == update_from_response(vehicle_state[1], new_state).self
           current_state == updated
           previous_state == Deref(mon_prev, updated)
           changes == print_changes(previous_state, current_state)
       IN  /\ vehicle_state' = <<updated>>
           /\ mon_out' = IF previous_state = <<>>
                          THEN [kind |-> "initial", changed |-> {}]
                          ELSE IF changes # {}
                          THEN [kind |-> "changes", changed |-> changes]
                          ELSE [kind |-> "no_changes", changed |-> {}]
           /\ h_polled' = updated
    /\ mon_prev' = "accumulator"
    /\ h_before' = h_polled
    /\ calls' = calls + 1
    /\ c_new_state' = new_state
    /\ h_atCall' = vehicle_state
    /\ h_lastSet' = [f \in Fields |->
                        IF new_state[f] # None THEN new_state[f] ELSE h_lastSet[f]]
    /\ UNCHANGED <<connection, write_char, read_char, cpc, cerr, acc_id>>
    /\ UNCHANGED <<mergeVars, recvVars, sendVars, codecVars, connVars, taskVars,
                   scanVars, queueVars>>

\* one iteration whose exchange raises: the error is printed, previous_state
\* stays
MonPollFail ==
    /\ calls < MaxExchanges
    /\ calls' = calls + 1
    /\ mon_out' = [kind |-> "error", changed |-> {}]
    /\ UNCHANGED <<mon_prev, h_polled, h_before>>
    /\ UNCHANGED <<connection, write_char, read_char, vehicle_state, cpc, cerr,
                   c_new_state, acc_id, h_atCall, h_lastSet>>
    /\ UNCHANGED <<mergeVars, recvVars, sendVars, codecVars, connVars, taskVars,
                   scanVars, queueVars>>

\* a connected client after connect() returned True; the loop not started
InitMonitor ==
    /\ MergeParked /\ RecvParked /\ SendParked /\ CodecParked /\ ConnParked /\ TaskParked
    /\ ScanInit /\ QueueInit /\ MonInit
    /\ connection = TRUE /\ write_char = TRUE /\ read_char = TRUE
    /\ vehicle_state = <<EmptyState>>
    /\ cpc = "idle" /\ cerr = "none" /\ calls = 0 /\ c_new_state = EmptyState
    /\ acc_id = 1 /\ h_atCall = <<>> /\ h_lastSet = EmptyState

NextMonitor ==
    \/ \E new_state \in ParsedSnapshots : MonPoll(new_state)
    \/ MonPollFail

SpecMonitor == InitMonitor /\ [][NextMonitor]_vars

\* C38: an iteration that follows a successful poll reports 'Changes
\* Detected' with every monitored field whose value differs between the two
\* polls, and reports 'No changes' only when none differs.
C38_ChangesReported ==
    mon_out.kind \in {"changes", "no_changes"} =>
        LET changed == {f \in MonitoredFields : h_before[f] # h_polled[f]}
        IN  /\ changed # {} => (mon_out.kind = "changes" /\ changed \subseteq mon_out.changed)
            /\ mon_out.kind = "no_changes" => changed = {}


(***************************************************************************)
(* Specification SpecIso: consecutive exchanges on one connection.  The    *)
(* vehicle answers request k with three notifications, delivered at any    *)
(* time after the request; it takes the next request only when it has      *)
(* delivered them all.  A delivered notification waits in the read         *)
(* characteristic until notified() takes it.  _receive_message is the      *)
(* loop of SpecRecv with its clock abstracted: the wait may time out       *)
(* whenever no notification is waiting.                                    *)
(***************************************************************************)
\* the 43 bytes the vehicle sends for request k (without the leading 0x32)
IsoBody(k) ==
    <<18, 16>> \o Fill(16, k) \o <<58, 2, 8, 2>> \o <<82, 19>> \o Fill(19, 10 + k)

\* the notifications of that response: a length header and 17 bytes, 20
\* bytes, the last 6 bytes
IsoFragments(k) ==
    << [req |-> k, data |-> <<0, 0, Len(IsoBody(k))>> \o Slice(IsoBody(k), 0, 17)],
       [req |-> k, data |-> Slice(IsoBody(k), 17, 37)],
       [req |-> k, data |-> Slice(IsoBody(k), 37, Len(IsoBody(k)))] >>

\* send_body_controller_state_request: the request is sent, the vehicle
\* owes its response, _receive_message starts with empty `packets`
IsoSend ==
    /\ q_pc \in {"idle", "done", "timeout"}
    /\ q_req < MaxExchanges
    /\ q_air = <<>>
    /\ q_req' = q_req + 1
    /\ q_air' = IsoFragments(q_req + 1)
    /\ q_pc' = "wait"
    /\ q_packets' = <<>>
    /\ q_first' = TRUE
    /\ q_taken' = <<>>
    /\ q_frame' = NoBytes
    /\ UNCHANGED q_queue
    /\ UNCHANGED <<mergeVars, clientVars, recvVars, sendVars, codecVars, connVars,
                   taskVars, monVars, scanVars>>

\* the vehicle delivers its next notification
IsoDeliver ==
    /\ q_air # <<>>
    /\ q_air' = Tail(q_air)
    /\ q_queue' = Append(q_queue, Head(q_air))
    /\ UNCHANGED <<q_pc, q_req, q_packets, q_first, q_taken, q_frame>>
    /\ UNCHANGED <<mergeVars, clientVars, recvVars, sendVars, codecVars, connVars,
                   taskVars, monVars, scanVars>>

\* notified() returns the notification that waited longest; the loop body
IsoNotified ==
    /\ q_pc = "wait"
    /\ q_queue # <<>>
    /\ q_queue' = Tail(q_queue)
    /\ LET data == Head(q_queue).data
       IN  IF data = NoBytes \/ IsErrorPacket(data)
           THEN UNCHANGED <<q_pc, q_packets, q_first, q_taken, q_frame>>
           ELSE LET ps == StorePacket(q_packets, q_first, data)
                IN  /\ q_packets' = ps
                    /\ q_first' = FALSE
                    /\ q_taken' = Append(q_taken, Head(q_queue).req)
                    /\ IF Complete(ps)
                       THEN q_pc' = "done" /\ q_frame' = Reassemble(ps)
                       ELSE UNCHANGED <<q_pc, q_frame>>
    /\ UNCHANGED <<q_req, q_air>>
    /\ UNCHANGED <<mergeVars, clientVars, recvVars, sendVars, codecVars, connVars,
                   taskVars, monVars, scanVars>>

\* the wait times out: with packets the frame is returned, without packets
\* the loop goes on until TimeoutError
IsoWaitTimeout ==
    /\ q_pc = "wait"
    /\ q_queue = <<>>
    /\ IF HasPackets(q_packets)
       THEN q_pc' = "done" /\ q_frame' = Reassemble(q_packets)
       ELSE q_pc' = "timeout" /\ UNCHANGED q_frame
    /\ UNCHANGED <<q_req, q_air, q_queue, q_packets, q_first, q_taken>>
    /\ UNCHANGED <<mergeVars, clientVars, recvVars, sendVars, codecVars, connVars,
                   taskVars, monVars, scanVars>>

InitIso ==
    /\ MergeParked /\ ClientParked /\ RecvParked /\ SendParked /\ CodecParked
    /\ ConnParked /\ TaskParked /\ MonInit /\ ScanInit /\ QueueInit

NextIso ==
    \/ IsoSend
    \/ IsoDeliver
    \/ IsoNotified
    \/ IsoWaitTimeout

SpecIso == InitIso /\ [][NextIso]_vars

\* C31: every notification that went into the frame returned for a request
\* was sent by the vehicle in response to that request.
C31_ExchangeIsolation ==
    q_pc = "done" => \A k \in 1..Len(q_taken) : q_taken[k] = q_req


(***************************************************************************)
(* Specification SpecConnect: MinimalTeslaClient.connect and its device    *)
(* cache.  One action is one connect() call; the outcomes of the scan, of  *)
(* device.connect() and of the discovery steps are inputs.  Time is        *)
(* counted in ticks; the cache timeout is CacheTimeoutTicks ticks.         *)
(***************************************************************************)
CacheTimeoutTicks == 2
MaxNow == 3
MaxConnectCalls == 2

\* addresses a scan can return, and the address a caller supplies
ScanAddrs == {"AA:01", "AA:02"}
CallerMac == "CC:03"

\* mutation of is_cache_valid: the age of the cache is not looked at
is_cache_valid_NoAge(mac, ts, t) ==
    ~(mac = None \/ ts = NoTime)

\* _is_cache_valid with self._cached_mac = mac, self._cache_timestamp = ts,
\* time.ticks_ms() = t
is_cache_valid(mac, ts, t) ==
    /\ ~(mac = None \/ ts = NoTime)
    /\ t - ts < CacheTimeoutTicks

\* one entry of the log of a connect() call
ConnectEvent(a, c, t) == [ev |-> "connect", addr |-> a, res |-> c, at |-> t]
ScanEvent(r, t) ==
    [ev |-> "scan", addr |-> IF r \in ScanAddrs THEN r ELSE None,
     res |-> IF r \in ScanAddrs THEN "found" ELSE r, at |-> t]

\* self._connection = await asyncio.wait_for(device.connect(), timeout=10)
\* for the device at address a, with outcome c
Attempt(b, a, c) ==
    [b EXCEPT !.log = Append(b.log, ConnectEvent(a, c, b.now)),
              !.conn = IF c = "ok" THEN TRUE ELSE b.conn,
              !.exc = IF c = "ok" THEN "none"
                      ELSE IF c = "timeout" THEN "Timeout" ELSE "Error"]

\* scan_for_vehicle (it returns `scan` within the tick), the check for
\* None, _cache_device and the connection to the device found
ScanAndConnect(b, scan, c) ==
    LET s == [b EXCEPT !.log = Append(b.log, ScanEvent(scan, b.now))]
    IN  IF scan \notin ScanAddrs
        THEN [s EXCEPT !.exc = "Error"]
        ELSE Attempt([s EXCEPT !.mac = scan, !.ts = s.now], scan, c)

\* mutation of CachedFallback: the device found is not cached
CachedFallback_KeepCache(b, scan, c2) ==
    LET s == [b EXCEPT !.conn = FALSE, !.exc = "none",
                       !.log = Append(b.log, ScanEvent(scan, b.now))]
    IN  IF scan \notin ScanAddrs
        THEN [s EXCEPT !.exc = "Error"]
        ELSE Attempt(s, scan, c2)

\* the handler of a failed connection to the cached MAC
CachedFallback(b, scan, c2) ==
    ScanAndConnect([b EXCEPT !.conn = FALSE, !.exc = "none"], scan, c2)

\* the connection decision tree of connect()
SelectDevice(force_scan, mac_address, c1, scan, c2) ==
    LET b0 == [log |-> <<>>, conn |-> connection, mac |-> cached_mac,
               ts |-> cache_timestamp, exc |-> "none", now |-> g_now]
    IN  IF mac_address # None
        THEN b0
        ELSE IF is_cache_valid(cached_mac, cache_timestamp, g_now) /\ ~force_scan
             THEN LET a == Attempt(b0, cached_mac, c1)
                  IN  IF c1 = "ok" THEN a ELSE CachedFallback(a, scan, c2)
             ELSE ScanAndConnect(b0, scan, c1)

\* connect(force_scan, mac_address).  c1 is the outcome of the first
\* device.connect() of the call.  The other outcomes are drawn for the steps
\* the call reaches: the scan, the connection after the
\* fallback scan (c2), and the steps after the connection (rest): "ok",
\* "error", or asyncio.TimeoutError in subscribe() ("timeout5")
Connect(force_scan, mac_address, c1) ==
    /\ cpc = "idle"
    /\ acc_id < MaxConnects
    /\ g_calls < MaxConnectCalls
    /\ LET cached == mac_address = None /\ ~force_scan
                      /\ is_cache_valid(cached_mac, cache_timestamp, g_now)
           scans == mac_address = None /\ (~cached \/ c1 # "ok")
       IN  \E scan \in IF scans THEN ScanAddrs \cup {"none", "error"} ELSE {"none"},
              c2 \in IF cached /\ c1 # "ok" THEN {"ok", "error", "timeout"} ELSE {"ok"} :
             /\ LET a == SelectDevice(force_scan, mac_address, c1, scan, c2)
                    b == IF a.exc = "none" /\ ~a.conn
                         THEN Attempt(a, mac_address, c1) ELSE a
                IN  \E rest \in IF b.exc = "none"
                                THEN {"ok", "error", "timeout5"}
                                ELSE {"ok"} :
                      LET exc == IF b.exc # "none" THEN b.exc
                                 ELSE IF rest = "ok" THEN "none"
                                 ELSE IF rest = "error" THEN "Error" ELSE "Timeout"
                      IN  /\ connection' = IF exc = "Error" THEN FALSE ELSE b.conn
                          /\ write_char' =
                                IF exc = "Error" THEN FALSE
                                ELSE IF b.exc = "none" /\ rest \in {"ok", "timeout5"}
                                     THEN TRUE ELSE write_char
                          /\ read_char' =
                                IF exc = "Error" THEN FALSE
                                ELSE IF b.exc = "none" /\ rest \in {"ok", "timeout5"}
                                     THEN TRUE ELSE read_char
                          /\ vehicle_state' =
                                IF exc = "none" THEN <<EmptyState>> ELSE vehicle_state
                          /\ acc_id' = IF exc = "none" THEN acc_id + 1 ELSE acc_id
                          /\ h_lastSet' = IF exc = "none" THEN EmptyState ELSE h_lastSet
                          /\ cached_mac' = b.mac
                          /\ cache_timestamp' = b.ts
                          /\ g_now' = g_now
                          /\ g_log' = b.log
                          /\ g_result' =
                                IF exc = "none" THEN "True"
                                ELSE IF exc = "Timeout" THEN "TimeoutError"
                                ELSE "ConnectionError"
    /\ g_args' = <<[force_scan |-> force_scan, mac_address |-> mac_address]>>
    /\ g_calls' = g_calls + 1
    /\ UNCHANGED <<cpc, cerr, calls, c_new_state, h_atCall, dpc, d_log>>
    /\ UNCHANGED <<mergeVars, recvVars, sendVars, codecVars, taskVars, monVars, queueVars>>

\* time passes between two calls
ConnectTick ==
    /\ g_now < MaxNow
    /\ g_now' = g_now + 1
    /\ UNCHANGED <<g_args, g_log, g_result, g_calls>>
    /\ UNCHANGED <<mergeVars, clientVars, recvVars, sendVars, codecVars, connVars,
                   taskVars, monVars, queueVars>>

InitConnect ==
    /\ MergeParked /\ ClientInit /\ RecvParked /\ SendParked /\ CodecParked
    /\ ConnInit /\ TaskParked /\ MonInit /\ ScanInit /\ QueueInit

NextConnect ==
    \/ \E force_scan \in BOOLEAN, mac_address \in {None, CallerMac},
          c1 \in {"ok", "error", "timeout"} :
            Connect(force_scan, mac_address, c1)
    \/ Disconnect
    \/ ConnectTick

SpecConnect == InitConnect /\ [][NextConnect]_vars

\* C33: with a caller-supplied MAC connect() does not scan and leaves the
\* cache alone, and connects to no other address; without one its first step
\* is a connection to the cached MAC exactly when a MAC is cached, younger
\* than the timeout, and force_scan is false, and a scan otherwise.  The
\* cache only ever takes the address a scan of the same call has found.
C33_DecisionTree ==
    /\ [][g_calls' # g_calls =>
            (LET a == g_args'[1]
                 usable == /\ cached_mac # None
                           /\ cache_timestamp # NoTime
                           /\ g_now - cache_timestamp < CacheTimeoutTicks
                           /\ ~a.force_scan
             IN  IF a.mac_address # None
                 THEN /\ \A i \in 1..Len(g_log') :
                            g_log'[i].ev = "connect" /\ g_log'[i].addr = a.mac_address
                      /\ cached_mac' = cached_mac
                      /\ cache_timestamp' = cache_timestamp
                 ELSE /\ g_log' # <<>>
                      /\ IF usable
                         THEN g_log'[1].ev = "connect" /\ g_log'[1].addr = cached_mac
                         ELSE g_log'[1].ev = "scan")]_vars
    /\ [](cached_mac # None => cached_mac \in ScanAddrs)
    /\ [][(cached_mac' # cached_mac \/ cache_timestamp' # cache_timestamp) =>
            (\E i \in 1..Len(g_log') :
                /\ g_log'[i].ev = "scan"
                /\ g_log'[i].res = "found"
                /\ g_log'[i].addr = cached_mac'
                /\ g_log'[i].at = cache_timestamp')]_vars

\* a call with a caller-supplied MAC and force_scan set, made while a MAC
\* was cached, has connected to the caller's address
C33_Witness ==
    /\ g_args # <<>>
    /\ g_args[1].mac_address = CallerMac
    /\ g_args[1].force_scan
    /\ cached_mac # None
    /\ Len(g_log) = 1
    /\ g_log[1].ev = "connect"
    /\ g_log[1].addr = CallerMac
    /\ g_result = "True"

\* C34: when the connection to the cached MAC fails, connect() scans exactly
\* once; if the scan finds the vehicle the cache takes its address and the
\* time, and exactly one more connection is attempted, to that address; if
\* it does not, connect() raises ConnectionError and the client is not
\* connected.
C34_CachedFallback ==
    [][(/\ g_calls' # g_calls
        /\ g_args'[1].mac_address = None
        /\ g_log'[1].ev = "connect"
        /\ g_log'[1].res # "ok")
       => (/\ Len(g_log') >= 2
           /\ g_log'[2].ev = "scan"
           /\ \A i \in 1..Len(g_log') : g_log'[i].ev = "scan" => i = 2
           /\ IF g_log'[2].res = "found"
              THEN /\ cached_mac' = g_log'[2].addr
                   /\ cache_timestamp' = g_log'[2].at
                   /\ g_log'[2].at >= g_now
                   /\ Len(g_log') = 3
                   /\ g_log'[3].ev = "connect"
                   /\ g_log'[3].addr = g_log'[2].addr
              ELSE /\ Len(g_log') = 2
                   /\ g_result' = "ConnectionError"
                   /\ ~is_connected')]_vars

\* the cached MAC failed, the scan found the vehicle at another address, and
\* the connection to it succeeded
C34_Witness ==
    /\ g_args # <<>>
    /\ g_args[1].mac_address = None
    /\ Len(g_log) = 3
    /\ g_log[1].ev = "connect"
    /\ g_log[1].res = "timeout"
    /\ g_log[2].res = "found"
    /\ g_log[2].addr # g_log[1].addr
    /\ cached_mac = g_log[2].addr
    /\ cache_timestamp = g_log[2].at
    /\ g_result = "True"
    /\ is_connected

====
